---------------------------- MODULE Spec2Model ----------------------------
(***************************************************************************)
(* Model of the XREAL IMU TCP client (src/src/imu_reader.py):              *)
(*   - ImuPacketParser.find_packet, the 4-byte-stepped plausibility scan   *)
(*     over a byte buffer, with the IEEE-754 single decoding that          *)
(*     struct.unpack('<6f', ...) performs;                                 *)
(*   - ImuPacketParser._parse_message and _parse_message_search;           *)
(*   - ImuReader: the worker thread running _read_loop, and a second       *)
(*     thread calling start() and stop(), interleaved at the granularity   *)
(*     of the accesses to the shared attributes (_running, _socket,        *)
(*     _state, _thread, _latest_data, _data_lock); threads calling         *)
(*     get_latest(); start() called again after stop().                    *)
(*                                                                         *)
(* Bytes are integers 0..255, buffers are sequences of bytes.  A float is  *)
(* the record [s, e, m] of the sign, biased exponent and 23-bit mantissa   *)
(* of its bit pattern.  The timestamp field of ImuData (time.time()) is    *)
(* not modelled.                                                           *)
(***************************************************************************)
EXTENDS Integers, Sequences, FiniteSets, TLC

VARIABLES
    auto_reconnect,   \* ImuReader.auto_reconnect (constructor argument)
    _running,         \* ImuReader._running
    _socket,          \* ImuReader._socket: None or a reference to the socket object
    sock,             \* status of the socket object the worker created last
    _state,           \* ImuReader._state
    _thread,          \* ImuReader._thread: None or the worker thread
    _latest_data,     \* ImuReader._latest_data
    packets_received, \* ImuReader.packets_received
    buffer,           \* _read_loop's local buffer
    imu_data,         \* _read_loop's local imu_data (None outside the parse loop)
    pc,               \* pc[t]: where thread t is, t in {"worker", "client"}
    ctx,              \* ctx[t]: the call site of _connect/_disconnect/_set_state t is under
    recvd,            \* number of non-empty chunks recv has returned
    notified,         \* history: the state on_state_change was last invoked with
    notifyLag,        \* history: invocations of on_state_change minus changes of _state
    lost,             \* history: an established connection was lost, no read/connect since
    needDelay,        \* history: a transient connection error occurred, no delay step since
    reported,         \* history: the last states on_state_change was invoked with
    peer,             \* history: the last things the peer did (accept, close, data, fail)
    _data_lock,       \* ImuReader._data_lock: None or the thread holding it
    got,              \* history: what get_latest() returned last ("unset" before)
    lastStored,       \* history: the sample the worker stored last
    storedSince,      \* history: the worker has stored since get_latest() returned last
    imuSeq,           \* history: imu_data is the imuSeq-th sample extracted (0: none)
    lastDelivered,    \* history: on_data was last called with the lastDelivered-th sample
    pbuf,             \* parser harness: the buffer handed to find_packet
    pres,             \* parser harness: what the routine called returned ("unset" before)
    ppc,              \* parser harness: "build" | "found" | "parsed" | "searched"
    pn,               \* parser harness: number of pieces appended
    vrunning,         \* XrealEyeViewer.running
    vsock,            \* XrealEyeViewer.sock: "none" | "connected" | "eof" (the
                      \* peer has closed the connection) | "closed"
    vbuffer,          \* receive_thread's local buffer: a slice of the video stream
    frame_queue,      \* XrealEyeViewer.frame_queue
    last_frame,       \* run's local last_frame
    frame_count,      \* run's local frame_count
    vpc,              \* where the video receive thread is
    vmain,            \* where the thread in run() is
    vseed,            \* picks the content of the video stream
    vchunks,          \* number of non-empty chunks the video recv has returned
    vtotal,           \* history: number of bytes the video recv has returned
    vextracted,       \* history: the packets whose frame was queued, in order
    imu_reader,       \* XrealTestApp.imu_reader: None or a reader of readers
    readers           \* the ImuReader objects the application has created

pvars == <<pbuf, pres, ppc, pn>>

rvars == <<auto_reconnect, _running, _socket, sock, _state, _thread, _latest_data,
           packets_received, buffer, imu_data, pc, ctx, recvd,
           notified, notifyLag, lost, needDelay, reported, peer,
           _data_lock, got, lastStored, storedSince, imuSeq, lastDelivered>>

\* the data lock and the histories of get_latest()
gvars == <<_data_lock, got, lastStored, storedSince>>

\* the histories of extraction and delivery
dvars == <<imuSeq, lastDelivered>>

vvars == <<vrunning, vsock, vbuffer, frame_queue, last_frame, frame_count,
           vpc, vmain, vseed, vchunks, vtotal, vextracted>>

avars == <<imu_reader, readers>>

vars == <<rvars, reported, peer, gvars, dvars, pvars, vvars, avars>>

None == "None"

\* Python's None where the other values are records (a sample, a result)
NoData == [none |-> TRUE]

-----------------------------------------------------------------------------
(* struct.unpack('<6f', window): little-endian IEEE-754 single precision.  *)

\* One float from its four bytes, least significant byte first.
F32(b0, b1, b2, b3) ==
    [s |-> b3 \div 128,
     e |-> (b3 % 128) * 2 + (b2 \div 128),
     m |-> (b2 % 128) * 65536 + b1 * 256 + b0]

\* struct.unpack('<6f', buffer[offset:offset + 24]); offset is 0-based.
Unpack6f(buf, offset) ==
    [i \in 1..6 |->
        F32(buf[offset + 4 * (i - 1) + 1], buf[offset + 4 * (i - 1) + 2],
            buf[offset + 4 * (i - 1) + 3], buf[offset + 4 * (i - 1) + 4])]

-----------------------------------------------------------------------------
(* The plausibility predicate of find_packet, on decoded floats.           *)
(*                                                                         *)
(* -10 < v < 10 : 10.0 is e = 130, m = 2^21, so |v| < 10 iff the pair      *)
(* (e, m) is below (130, 2^21); a NaN or an infinity (e = 255) fails.      *)
(*                                                                         *)
(* accel_mag = (v3**2 + v4**2 + v5**2) ** 0.5 in double precision.         *)
(* A component with e >= 131 (|v| >= 16, infinity, NaN) makes the          *)
(* magnitude >= 16 or NaN: the test fails.  A component with e <= 102      *)
(* (|v| < 2^-24) has a square below 2^-48, which is less than half an ulp  *)
(* of every double in [64, 128): it cannot move the sum across 81 or 121,  *)
(* so it counts as 0.  A component with 128 <= e <= 130 is X * 2^-22 with  *)
(* X = (2^23 + m) * 2^(e-128) < 2^26; squares and their sum are multiples  *)
(* of 2^-44 below 2^9, exact in a double, and the correctly rounded square *)
(* root is > 9.0 iff the sum is > 81 and < 11.0 iff the sum is < 121.      *)
(* The sum is compared in limbs of 13 bits to stay within TLC's integers.  *)
(* Exponents 103..127 do not occur in the byte alphabet of this model      *)
(* (AlphabetRepresentable below).                                          *)

Pow2(n) == IF n = 0 THEN 1 ELSE IF n = 1 THEN 2 ELSE 4

GyroInRange_NonStrict(v) ==
    v.e < 130 \/ (v.e = 130 /\ v.m <= 2097152)

\* -10 < v < 10   (imu_reader.py:85)
GyroInRange(v) ==
    v.e < 130 \/ (v.e = 130 /\ v.m < 2097152)

IsBig(v) == v.e >= 131
IsTiny(v) == v.e <= 102

\* X with |v| = X * 2^-22, for 128 <= e <= 130; 0 for a negligible component.
Scaled(v) == IF IsTiny(v) THEN 0 ELSE (8388608 + v.m) * Pow2(v.e - 128)

\* The sum of the three squares, in units of 2^-44, as <<hi, mid, lo>> with
\* value hi * 2^26 + mid * 2^13 + lo and mid, lo < 2^13.
SumSq(v3, v4, v5) ==
    LET A(v) == Scaled(v) \div 8192
        B(v) == Scaled(v) % 8192
        SA  == A(v3) * A(v3) + A(v4) * A(v4) + A(v5) * A(v5)
        SAB == 2 * (A(v3) * B(v3) + A(v4) * B(v4) + A(v5) * B(v5))
        SB  == B(v3) * B(v3) + B(v4) * B(v4) + B(v5) * B(v5)
        C1  == SAB + (SB \div 8192)
    IN  <<SA + (C1 \div 8192), C1 % 8192, SB % 8192>>

\* 81 * 2^18 and 121 * 2^18: 9.0^2 and 11.0^2 in units of 2^-44, high limb.
Sq9Hi == 21233664
Sq11Hi == 31719424

AccelInRange_NonStrict(v3, v4, v5) ==
    /\ ~IsBig(v3) /\ ~IsBig(v4) /\ ~IsBig(v5)
    /\ LET t == SumSq(v3, v4, v5)
       IN  /\ t[1] >= Sq9Hi
           /\ (t[1] < Sq11Hi \/ (t[1] = Sq11Hi /\ t[2] = 0 /\ t[3] = 0))

\* 9.0 < accel_mag < 11.0   (imu_reader.py:86-88)
AccelInRange(v3, v4, v5) ==
    /\ ~IsBig(v3) /\ ~IsBig(v4) /\ ~IsBig(v5)
    /\ LET t == SumSq(v3, v4, v5)
       IN  /\ (t[1] > Sq9Hi \/ (t[1] = Sq9Hi /\ (t[2] > 0 \/ t[3] > 0)))
           /\ t[1] < Sq11Hi

IsValidImu_NonStrict(values) ==
    /\ \A i \in 1..3 : GyroInRange_NonStrict(values[i])
    /\ AccelInRange_NonStrict(values[4], values[5], values[6])

\* gyro_ok and 9.0 < accel_mag < 11.0   (imu_reader.py:85-88)
IsValidImu(values) ==
    /\ \A i \in 1..3 : GyroInRange(values[i])
    /\ AccelInRange(values[4], values[5], values[6])

\* ImuData(gyro_x=values[0], ..., accel_z=values[5])   (imu_reader.py:89-97)
ImuData(values) ==
    [gyro_x |-> values[1], gyro_y |-> values[2], gyro_z |-> values[3],
     accel_x |-> values[4], accel_y |-> values[5], accel_z |-> values[6]]

\* range(0, len(buffer) - 24, 4)   (imu_reader.py:80)
ScanOffsets(buf) ==
    {o \in 0..(Len(buf) - 25) : o % 4 = 0}

FindPacket_LastHit(buf) ==
    LET hits == {o \in ScanOffsets(buf) : IsValidImu(Unpack6f(buf, o))}
    IN  IF hits = {} THEN NoData
        ELSE LET offset == CHOOSE o \in hits : \A p \in hits : o >= p
             IN  [data |-> ImuData(Unpack6f(buf, offset)),
                  consumed |-> offset + 24]

\* find_packet: the sample at the first offset of the scan whose window is
\* valid, with offset + 24; None (NoData) when the scan finds none.
FindPacket(buf) ==
    LET hits == {o \in ScanOffsets(buf) : IsValidImu(Unpack6f(buf, o))}
    IN  IF hits = {} THEN NoData
        ELSE LET offset == CHOOSE o \in hits : \A p \in hits : o <= p
             IN  [data |-> ImuData(Unpack6f(buf, offset)),
                  consumed |-> offset + 24]

\* ImuData(gyro_x=values[0], gyro_y=values[1], gyro_z=values[2],
\*         accel_z=values[3], accel_y=values[4], accel_x=values[5])
\* (imu_reader.py:160-168)
ImuDataSearch(values) ==
    [gyro_x |-> values[1], gyro_y |-> values[2], gyro_z |-> values[3],
     accel_x |-> values[6], accel_y |-> values[5], accel_z |-> values[4]]

\* _parse_message_search: the sample at the first offset of
\* range(0, len(message) - 24, 4) whose window is valid, else None
ParseMessageSearch(message) ==
    LET hits == {o \in ScanOffsets(message) : IsValidImu(Unpack6f(message, o))}
    IN  IF hits = {} THEN NoData
        ELSE LET offset == CHOOSE o \in hits : \A p \in hits : o <= p
             IN  ImuDataSearch(Unpack6f(message, offset))

\* data_start = 168   (imu_reader.py:120)
MsgDataStart == 168

\* _parse_message: the window at offset 168 when the message has it and it
\* is valid, else the result of the search
ParseMessage(message) ==
    IF Len(message) < MsgDataStart + 24
      THEN ParseMessageSearch(message)
      ELSE LET values == Unpack6f(message, MsgDataStart)
           IN  IF IsValidImu(values) THEN ImuData(values)
                                     ELSE ParseMessageSearch(message)

-----------------------------------------------------------------------------
(* Byte strings the model feeds to the parser and to recv.                 *)

Word(b2, b3) == <<0, 0, b2, b3>>
Zero     == Word(0, 0)         \* 0.0
P6       == Word(192, 64)      \* 6.0
P8       == Word(0, 65)        \* 8.0
P9       == Word(16, 65)       \* 9.0
P9_5     == Word(24, 65)       \* 9.5
M9_5     == Word(24, 193)      \* -9.5
P10      == Word(32, 65)       \* 10.0
P11      == Word(48, 65)       \* 11.0

\* gyro (0, 0, 0), accel (6, 8, 0): magnitude 10, valid.
PayloadA == Zero \o Zero \o Zero \o P6 \o P8 \o Zero
\* gyro (0, -9.5, 0), accel (0, 0, 9.5): valid.
PayloadB == Zero \o M9_5 \o Zero \o Zero \o Zero \o P9_5
\* accel magnitude exactly 9.0: not valid.
PayloadMag9 == Zero \o Zero \o Zero \o Zero \o Zero \o P9
\* accel magnitude exactly 11.0: not valid.
PayloadMag11 == Zero \o Zero \o Zero \o P11 \o Zero \o Zero
\* gyro_x exactly 10.0: not valid.
PayloadGyro10 == P10 \o Zero \o Zero \o Zero \o Zero \o P9_5
\* one byte that shifts what follows off the 4-byte grid
JunkByte == <<65>>

ByteAlphabet == {0, 16, 24, 32, 48, 64, 65, 192, 193}

\* Every float the alphabet can spell is one the magnitude arithmetic above
\* treats exactly: no exponent in 103..127.
AlphabetRepresentable ==
    \A b2, b3 \in ByteAlphabet :
        LET v == F32(0, 0, b2, b3) IN IsTiny(v) \/ v.e >= 128

-----------------------------------------------------------------------------
(* ImuReader.  Two threads: "worker" runs _read_loop, "client" calls       *)
(* start() and later stop().  Both callbacks are registered.  A blocking   *)
(* call (connect, recv, sleep, a callback, join) is two steps: the call    *)
(* and its return.                                                         *)

W == "worker"
C == "client"
G == "consumer"
\* the thread a second start() creates
W2 == "worker2"
Threads == {W, W2, C, G}

DISCONNECTED == "disconnected"
CONNECTING == "connecting"
CONNECTED == "connected"
ERROR == "error"

\* Bytes one recv may return.
RecvChunks ==
    {PayloadA \o Zero, PayloadMag9 \o Zero, PayloadGyro10 \o Zero, JunkByte \o PayloadB}

\* recv returns at most this many non-empty chunks in one run.
MaxRecv == 2

\* the truncation policy of _read_loop (imu_reader.py:328, 330)
CAP == 10000
TAIL == 1000

ReaderIdle ==
    /\ _running = FALSE
    /\ _socket = None
    /\ sock = "none"
    /\ _state = DISCONNECTED
    /\ _thread = None
    /\ _latest_data = NoData
    /\ packets_received = 0
    /\ buffer = <<>>
    /\ imu_data = NoData
    /\ pc = [t \in Threads |-> IF t \in {W, W2} THEN "idle"
                                ELSE IF t = G THEN "g_idle" ELSE "new"]
    /\ ctx = [t \in Threads |-> "-"]
    /\ recvd = 0
    /\ notified = None
    /\ notifyLag = 0
    /\ lost = FALSE
    /\ needDelay = FALSE
    /\ reported = <<>>
    /\ peer = <<>>
    /\ _data_lock = None
    /\ got = [unset |-> TRUE]
    /\ lastStored = NoData
    /\ storedSince = FALSE
    /\ imuSeq = 0
    /\ lastDelivered = 0

ParserIdle ==
    /\ pbuf = <<>>
    /\ pres = [unset |-> TRUE]
    /\ ppc = "build"
    /\ pn = 0

-----------------------------------------------------------------------------
(* The message framing constants (src/src/config.py:38-40).  The parser    *)
(* imports them and lists the headers in HEADERS; find_packet uses none.   *)

\* bytes.fromhex("283600000080")
IMU_HEADER == <<40, 54, 0, 0, 0, 128>>
\* bytes.fromhex("273600000080")
IMU_HEADER_ALT == <<39, 54, 0, 0, 0, 128>>
\* bytes.fromhex("000000cff753e3a59b0000db34b6d782de1b43")
IMU_FOOTER == <<0, 0, 0, 207, 247, 83, 227, 165, 155, 0, 0, 219, 52, 182, 215,
                130, 222, 27, 67>>

\* HEADERS = [IMU_HEADER, IMU_HEADER_ALT]   (imu_reader.py:66)
HEADERS == {IMU_HEADER, IMU_HEADER_ALT}

-----------------------------------------------------------------------------
(* XrealTestApp (src/src/main.py): the readers the 'Connect IMU' and        *)
(* 'Disconnect' buttons create and stop.  A reader is its connection state *)
(* and whether its worker thread is alive; the application creates every   *)
(* reader with auto_reconnect=True.                                         *)

\* the application creates at most this many readers
MaxReaders == 3

\* self.imu_reader is None; the readers are numbered from 1
NoReader == 0

\* XrealTestApp.__init__: self.imu_reader = None   (main.py:39)
AppIdle ==
    /\ imu_reader = NoReader
    /\ readers = <<>>

\* _connect_imu: 'Already connected', or a new ImuReader(auto_reconnect=True)
\* is stored in self.imu_reader and started   (main.py:228-243)
ConnectImu ==
    /\ Len(readers) < MaxReaders
    /\ IF imu_reader # NoReader /\ readers[imu_reader].state = "connected"
         THEN UNCHANGED <<imu_reader, readers>>
         ELSE /\ readers' = Append(readers, [state |-> "disconnected", alive |-> TRUE])
              /\ imu_reader' = Len(readers) + 1
    /\ UNCHANGED <<rvars, pvars, vvars>>

\* _disconnect: self.imu_reader.stop(); self.imu_reader = None
\* (main.py:245-250); stop() ends the worker and leaves DISCONNECTED
AppDisconnect ==
    /\ imu_reader # NoReader
    /\ readers' = [readers EXCEPT ![imu_reader] =
                      [state |-> "disconnected", alive |-> FALSE]]
    /\ imu_reader' = NoReader
    /\ UNCHANGED <<rvars, pvars, vvars>>

\* the worker of reader r changes the reader's state: a connect attempt
\* starts, succeeds or fails, a connection is lost   (imu_reader.py:297-360)
ReaderStep(r) ==
    /\ readers[r].alive
    /\ \E st \in {"connecting", "connected", "error", "disconnected"} :
          /\ \/ readers[r].state = "disconnected" /\ st = "connecting"
             \/ readers[r].state = "connecting" /\ st \in {"connected", "error"}
             \/ readers[r].state = "connected" /\ st = "disconnected"
             \/ readers[r].state = "error" /\ st = "connecting"
          /\ readers' = [readers EXCEPT ![r].state = st]
    /\ UNCHANGED <<imu_reader, rvars, pvars, vvars>>

AppNext ==
    \/ ConnectImu
    \/ AppDisconnect
    \/ \E r \in DOMAIN readers : ReaderStep(r)

-----------------------------------------------------------------------------
(* XrealEyeViewer (src/src/live_video_viewer.py).  The video stream is a   *)
(* fixed sequence of bytes, StreamByte(p) at position p; a byte string     *)
(* taken from it is the slice [start, len]; an image is the slice its      *)
(* pixels are computed from.                                               *)

PACKET_SIZE == 193862
HEADER_OFFSET == 320
WIDTH == 512
HEIGHT == 378
IMAGE_SIZE == WIDTH * HEIGHT

\* deque(maxlen=5)
QUEUE_MAXLEN == 5

\* the byte of the video stream at position p
StreamByte(p) == (p * vseed + (p \div 256)) % 256

\* b[i], for a slice b and 0 <= i < len(b)
ByteAt(b, i) == StreamByte(b.start + i)

\* b[i:j], for 0 <= i <= j
Slice(b, i, j) ==
    LET lo == IF i < b.len THEN i ELSE b.len
        hi == IF j < b.len THEN j ELSE b.len
    IN  [start |-> b.start + lo, len |-> hi - lo]

DecodePixel_LowNibble(byte) == ((byte % 16) * 17) % 256

\* ((pixels >> 4) & 0x0F) * 17 on uint8   (live_video_viewer.py:53)
DecodePixel(byte) == (((byte \div 16) % 16) * 17) % 256

DecodeFrame_FromEnd(packet) ==
    IF packet.len < HEADER_OFFSET + IMAGE_SIZE
      THEN NoData
      ELSE [data |-> Slice(packet, packet.len - IMAGE_SIZE, packet.len)]

\* decode_frame: None, or the image over data = packet[320:320 + IMAGE_SIZE]
DecodeFrame(packet) ==
    IF packet.len < HEADER_OFFSET + IMAGE_SIZE
      THEN NoData
      ELSE [data |-> Slice(packet, HEADER_OFFSET, HEADER_OFFSET + IMAGE_SIZE)]

Pixel_Transposed(img, y, x) == DecodePixel(ByteAt(img.data, x * HEIGHT + y))

\* img[y][x] after pixels.reshape((HEIGHT, WIDTH))   (live_video_viewer.py:52-56)
Pixel(img, y, x) == DecodePixel(ByteAt(img.data, y * WIDTH + x))

\* deque.append with maxlen
QueueAppend(q, x) ==
    IF Len(q) < QUEUE_MAXLEN THEN Append(q, x) ELSE Append(Tail(q), x)

\* the sizes of the chunks recv(65536) returns
VChunkSizes == {65536, 62790, 40000}

\* the video recv returns at most this many non-empty chunks in one run
MaxVChunks == 7

\* XrealEyeViewer.__init__
VideoIdle ==
    /\ vrunning = FALSE
    /\ vsock = "none"
    /\ vbuffer = [start |-> 0, len |-> 0]
    /\ frame_queue = <<>>
    /\ last_frame = NoData
    /\ frame_count = 0
    /\ vpc = "idle"
    /\ vmain = "new"
    /\ vchunks = 0
    /\ vtotal = 0
    /\ vextracted = <<>>

\* run(): connect() succeeded; self.running = True; the receive thread is
\* started   (live_video_viewer.py:99-109)
VRun ==
    /\ vmain = "new"
    /\ vsock' = "connected"
    /\ vrunning' = TRUE
    /\ vpc' = "while"
    /\ vmain' = "display"
    /\ UNCHANGED <<vbuffer, frame_queue, last_frame, frame_count, vseed, vchunks,
                   vtotal, vextracted, rvars, pvars, avars>>

\* run(): connect() raised; return   (live_video_viewer.py:99-103)
VRunFail ==
    /\ vmain = "new"
    /\ vmain' = "returned"
    /\ UNCHANGED <<vrunning, vsock, vbuffer, frame_queue, last_frame, frame_count,
                   vpc, vseed, vchunks, vtotal, vextracted, rvars, pvars, avars>>

\* one pass of the display loop   (live_video_viewer.py:121-131)
VDisplay ==
    /\ vmain = "display"
    /\ vrunning
    /\ IF frame_queue # <<>>
         THEN /\ last_frame' = frame_queue[Len(frame_queue)]
              /\ frame_queue' = SubSeq(frame_queue, 1, Len(frame_queue) - 1)
              /\ frame_count' = frame_count + 1
         ELSE UNCHANGED <<frame_queue, last_frame, frame_count>>
    /\ UNCHANGED <<vrunning, vsock, vbuffer, vpc, vmain, vseed, vchunks,
                   vtotal, vextracted, rvars, pvars, avars>>

\* key 'q', or the loop condition fails: self.running = False;
\* self.sock.close()   (live_video_viewer.py:148-159)
VQuit ==
    /\ vmain = "display"
    /\ vrunning' = FALSE
    /\ vsock' = "closed"
    /\ vmain' = "returned"
    /\ UNCHANGED <<vbuffer, frame_queue, last_frame, frame_count, vpc, vseed,
                   vchunks, vtotal, vextracted, rvars, pvars, avars>>

\* while self.running:   (live_video_viewer.py:64)
VWhile ==
    /\ vpc = "while"
    /\ vpc' = IF vrunning THEN "recv" ELSE "ended"
    /\ UNCHANGED <<vrunning, vsock, vbuffer, frame_queue, last_frame, frame_count,
                   vmain, vseed, vchunks, vtotal, vextracted, rvars, pvars, avars>>

\* data = self.sock.recv(65536); buffer += data   (live_video_viewer.py:66-70)
VRecvData ==
    /\ vpc = "recv"
    /\ vsock = "connected"
    /\ vchunks < MaxVChunks
    /\ \E n \in VChunkSizes :
          /\ vbuffer' = [vbuffer EXCEPT !.len = @ + n]
          /\ vtotal' = vtotal + n
    /\ vchunks' = vchunks + 1
    /\ vpc' = "extract"
    /\ UNCHANGED <<vrunning, vsock, frame_queue, last_frame, frame_count,
                   vmain, vseed, vextracted, rvars, pvars, avars>>

\* the peer has closed the connection, recv returns b'': continue
\* (live_video_viewer.py:67-68)
VRecvEmpty ==
    /\ vpc = "recv"
    /\ vsock \in {"connected", "eof"}
    /\ vsock' = "eof"
    /\ vpc' = "while"
    /\ UNCHANGED <<vrunning, vbuffer, frame_queue, last_frame, frame_count,
                   vmain, vseed, vchunks, vtotal, vextracted, rvars, pvars, avars>>

\* recv raises socket.timeout: continue   (live_video_viewer.py:82-83)
VRecvTimeout ==
    /\ vpc = "recv"
    /\ vsock = "connected"
    /\ vpc' = "while"
    /\ UNCHANGED <<vrunning, vsock, vbuffer, frame_queue, last_frame, frame_count,
                   vmain, vseed, vchunks, vtotal, vextracted, rvars, pvars, avars>>

\* recv raises another exception (a reset, a closed socket): break
\* (live_video_viewer.py:84-86)
VRecvError ==
    /\ vpc = "recv"
    /\ vsock \in {"connected", "closed"}
    /\ vpc' = "ended"
    /\ UNCHANGED <<vrunning, vsock, vbuffer, frame_queue, last_frame, frame_count,
                   vmain, vseed, vchunks, vtotal, vextracted, rvars, pvars, avars>>

VExtract_Strict ==
    /\ vpc = "extract"
    /\ IF vbuffer.len > PACKET_SIZE
         THEN LET packet == Slice(vbuffer, 0, PACKET_SIZE)
                  frame == DecodeFrame(packet)
              IN  /\ vbuffer' = Slice(vbuffer, PACKET_SIZE, vbuffer.len)
                  /\ IF frame # NoData
                       THEN /\ frame_queue' = QueueAppend(frame_queue, frame)
                            /\ vextracted' = Append(vextracted, packet)
                       ELSE UNCHANGED <<frame_queue, vextracted>>
                  /\ vpc' = "extract"
         ELSE /\ vpc' = "while"
              /\ UNCHANGED <<vbuffer, frame_queue, vextracted>>
    /\ UNCHANGED <<vrunning, vsock, last_frame, frame_count,
                   vmain, vseed, vchunks, vtotal, rvars, pvars, avars>>

\* one test of while len(buffer) >= PACKET_SIZE and, when it holds, one pass
\* of its body   (live_video_viewer.py:73-80)
VExtract ==
    /\ vpc = "extract"
    /\ IF vbuffer.len >= PACKET_SIZE
         THEN LET packet == Slice(vbuffer, 0, PACKET_SIZE)
                  frame == DecodeFrame(packet)
              IN  /\ vbuffer' = Slice(vbuffer, PACKET_SIZE, vbuffer.len)
                  /\ IF frame # NoData
                       THEN /\ frame_queue' = QueueAppend(frame_queue, frame)
                            /\ vextracted' = Append(vextracted, packet)
                       ELSE UNCHANGED <<frame_queue, vextracted>>
                  /\ vpc' = "extract"
         ELSE /\ vpc' = "while"
              /\ UNCHANGED <<vbuffer, frame_queue, vextracted>>
    /\ UNCHANGED <<vrunning, vsock, last_frame, frame_count,
                   vmain, vseed, vchunks, vtotal, rvars, pvars, avars>>

VideoNext ==
    \/ VRun \/ VRunFail \/ VDisplay \/ VQuit
    \/ VWhile \/ VRecvData \/ VRecvEmpty \/ VRecvTimeout \/ VRecvError
    \/ VExtract

\* XrealEyeViewer(), for each content of the stream the model uses
VideoInit ==
    /\ AlphabetRepresentable
    /\ auto_reconnect = TRUE
    /\ ReaderIdle
    /\ ParserIdle
    /\ VideoIdle
    /\ vseed \in {1, 37, 255}
    /\ AppIdle

SpecVideo == VideoInit /\ [][VideoNext]_vars

\* the steps of the receive thread
VReceiveStep ==
    VWhile \/ VRecvData \/ VRecvEmpty \/ VRecvTimeout \/ VRecvError \/ VExtract

\* The receive thread is a running thread: it takes its next step while it
\* has one.  Nothing makes the user quit.
SpecVideoFair == SpecVideo /\ WF_vars(VReceiveStep)

\* XrealTestApp(): no reader yet
AppInit ==
    /\ AlphabetRepresentable
    /\ auto_reconnect = TRUE
    /\ ReaderIdle
    /\ ParserIdle
    /\ VideoIdle
    /\ vseed = 1
    /\ AppIdle

SpecApp == AppInit /\ [][AppNext]_vars

\* ImuReader.__init__
Init ==
    /\ AlphabetRepresentable
    /\ auto_reconnect \in BOOLEAN
    /\ ReaderIdle
    /\ ParserIdle
    /\ VideoIdle
    /\ vseed = 1
    /\ AppIdle

Goto(t, p) == pc' = [pc EXCEPT ![t] = p]
GotoIn(t, p, c) == pc' = [pc EXCEPT ![t] = p] /\ ctx' = [ctx EXCEPT ![t] = c]

\* history logs keep their last n entries
Push(log, x, n) == IF Len(log) < n THEN Append(log, x) ELSE Append(Tail(log), x)

\* what a socket call of the worker came back with: "accept" (connect
\* returned), "close" (recv returned b''), "data", "fail" (an error)
NetLog(x) == peer' = Push(peer, x, 3)

WorkerAlive == pc[W] \notin {"idle", "done", "crashed"}

\* The worker is inside a call that blocks: connect, recv, sleep, a callback.
WorkerBlocked == pc[W] \in {"connect_wait", "recv_wait", "sleep", "on_data", "ss_in_cb"}

----
\* _set_state(state), called by thread t from the call site ctx[t].

Target_LossIsError(c) ==
    CASE c = "connecting" -> CONNECTING
      [] c = "connected"  -> CONNECTED
      [] c \in {"error", "closed"} -> ERROR
      [] OTHER            -> DISCONNECTED

\* The state the call site passes to _set_state.
Target(c) ==
    CASE c = "connecting" -> CONNECTING
      [] c = "connected"  -> CONNECTED
      [] c = "error"      -> ERROR
      [] OTHER            -> DISCONNECTED   \* from _disconnect

ReturnFromSetState_KeepsBuffer(t) ==
    /\ UNCHANGED buffer
    /\ CASE ctx[t] = "connecting" -> GotoIn(t, "connect_socket", "-")
         [] ctx[t] = "connected" -> GotoIn(t, "recv_call", "-")
         [] ctx[t] = "error" ->
               IF auto_reconnect THEN GotoIn(t, "sleep", "-")
                                 ELSE GotoIn(t, "d_if", "cleanup")
         [] ctx[t] \in {"closed", "oserror"} -> GotoIn(t, "while", "-")
         [] ctx[t] = "cleanup" -> GotoIn(t, "done", "-")
         [] OTHER -> GotoIn(t, "if_thread", "-")

ReturnFromSetState_AlwaysRetries(t) ==
    CASE ctx[t] = "connecting" ->
            GotoIn(t, "connect_socket", "-") /\ UNCHANGED buffer
      [] ctx[t] = "connected" ->
            GotoIn(t, "recv_call", "-") /\ UNCHANGED buffer
      [] ctx[t] = "error" ->
            GotoIn(t, "sleep", "-") /\ UNCHANGED buffer
      [] ctx[t] \in {"closed", "oserror"} ->
            GotoIn(t, "while", "-") /\ buffer' = <<>>
      [] ctx[t] = "cleanup" ->
            GotoIn(t, "done", "-") /\ UNCHANGED buffer
      [] OTHER ->
            GotoIn(t, "if_thread", "-") /\ UNCHANGED buffer

\* What follows the return of _set_state at the call site ctx[t]:
\*   connecting: line 261;  connected: _connect returns True, line 313;
\*   error: _connect returns False, lines 305-309;
\*   closed / oserror: _disconnect returns, buffer = b'', next pass of the loop;
\*   cleanup: _read_loop returns;  stop: line 241.
ReturnFromSetState(t) ==
    CASE ctx[t] = "connecting" ->
            GotoIn(t, "connect_socket", "-") /\ UNCHANGED buffer
      [] ctx[t] = "connected" ->
            GotoIn(t, "recv_call", "-") /\ UNCHANGED buffer
      [] ctx[t] = "error" ->
            /\ IF auto_reconnect THEN GotoIn(t, "sleep", "-")
                                 ELSE GotoIn(t, "d_if", "cleanup")
            /\ UNCHANGED buffer
      [] ctx[t] \in {"closed", "oserror"} ->
            GotoIn(t, "while", "-") /\ buffer' = <<>>
      [] ctx[t] = "cleanup" ->
            GotoIn(t, "done", "-") /\ UNCHANGED buffer
      [] OTHER ->
            GotoIn(t, "if_thread", "-") /\ UNCHANGED buffer

\* if state != self._state:   (imu_reader.py:247)
SsCheck(t) ==
    /\ pc[t] = "ss_check"
    /\ IF Target(ctx[t]) # _state
         THEN Goto(t, "ss_assign") /\ UNCHANGED <<ctx, buffer>>
         ELSE ReturnFromSetState(t)
    /\ UNCHANGED <<auto_reconnect, _running, _socket, sock, _state, _thread,
                   _latest_data, packets_received, imu_data, recvd,
                   notified, notifyLag, lost, needDelay, reported, peer, gvars, dvars, pvars, vvars, avars>>

\* self._state = state   (imu_reader.py:248)
SsAssign(t) ==
    /\ pc[t] = "ss_assign"
    /\ _state' = Target(ctx[t])
    /\ notifyLag' = IF _state # Target(ctx[t]) THEN notifyLag - 1 ELSE notifyLag
    /\ Goto(t, "ss_call")
    /\ UNCHANGED <<auto_reconnect, _running, _socket, sock, _thread, _latest_data,
                   packets_received, buffer, imu_data, ctx, recvd,
                   notified, lost, needDelay, reported, peer, gvars, dvars, pvars, vvars, avars>>

\* self.on_state_change(state) is invoked   (imu_reader.py:250-252)
SsCall(t) ==
    /\ pc[t] = "ss_call"
    /\ notified' = Target(ctx[t])
    /\ notifyLag' = notifyLag + 1
    /\ reported' = Push(reported, Target(ctx[t]), 4)
    /\ Goto(t, "ss_in_cb")
    /\ UNCHANGED <<auto_reconnect, _running, _socket, sock, _state, _thread,
                   _latest_data, packets_received, buffer, imu_data, ctx, recvd,
                   lost, needDelay, peer, gvars, dvars, pvars, vvars, avars>>

\* on_state_change returns
SsCallbackReturn(t) ==
    /\ pc[t] = "ss_in_cb"
    /\ ReturnFromSetState(t)
    /\ UNCHANGED <<auto_reconnect, _running, _socket, sock, _state, _thread,
                   _latest_data, packets_received, imu_data, recvd,
                   notified, notifyLag, lost, needDelay, reported, peer, gvars, dvars, pvars, vvars, avars>>

\* on_state_change raises: except Exception   (imu_reader.py:253)
SsCallbackRaise(t) ==
    /\ pc[t] = "ss_in_cb"
    /\ Goto(t, "ss_except")
    /\ UNCHANGED <<auto_reconnect, _running, _socket, sock, _state, _thread,
                   _latest_data, packets_received, buffer, imu_data, ctx, recvd,
                   notified, notifyLag, lost, needDelay, reported, peer, gvars, dvars, pvars, vvars, avars>>

\* logger.error(...), then _set_state returns   (imu_reader.py:254)
SsExcept(t) ==
    /\ pc[t] = "ss_except"
    /\ ReturnFromSetState(t)
    /\ UNCHANGED <<auto_reconnect, _running, _socket, sock, _state, _thread,
                   _latest_data, packets_received, imu_data, recvd,
                   notified, notifyLag, lost, needDelay, reported, peer, gvars, dvars, pvars, vvars, avars>>

----
\* _disconnect(), called by thread t; it ends in _set_state(DISCONNECTED).

\* if self._socket:   (imu_reader.py:289)
DisconnectIf(t) ==
    /\ pc[t] = "d_if"
    /\ Goto(t, IF _socket # None THEN "d_close" ELSE "ss_check")
    /\ UNCHANGED <<auto_reconnect, _running, _socket, sock, _state, _thread,
                   _latest_data, packets_received, buffer, imu_data, ctx, recvd,
                   notified, notifyLag, lost, needDelay, reported, peer, gvars, dvars, pvars, vvars, avars>>

\* self._socket.close(); on None the AttributeError is swallowed by
\* except Exception: pass   (imu_reader.py:290-293)
DisconnectClose(t) ==
    /\ pc[t] = "d_close"
    /\ sock' = IF _socket # None THEN "closed" ELSE sock
    /\ Goto(t, "d_none")
    /\ UNCHANGED <<auto_reconnect, _running, _socket, _state, _thread,
                   _latest_data, packets_received, buffer, imu_data, ctx, recvd,
                   notified, notifyLag, lost, needDelay, reported, peer, gvars, dvars, pvars, vvars, avars>>

\* self._socket = None, then self._set_state(DISCONNECTED)   (imu_reader.py:294-295)
DisconnectClear(t) ==
    /\ pc[t] = "d_none"
    /\ _socket' = None
    /\ Goto(t, "ss_check")
    /\ UNCHANGED <<auto_reconnect, _running, sock, _state, _thread,
                   _latest_data, packets_received, buffer, imu_data, ctx, recvd,
                   notified, notifyLag, lost, needDelay, reported, peer, gvars, dvars, pvars, vvars, avars>>

----
\* _read_loop and _connect, run by the worker.

\* the AttributeError of self._socket.<method> on None: no handler of
\* _connect or _read_loop catches it, the thread dies
Crash == Goto(W, "crashed") /\ UNCHANGED ctx

\* a failed connect: the except clauses of _connect, each
\* self._set_state(ConnectionState.ERROR); return False   (imu_reader.py:272-285)
ConnectFailed == GotoIn(W, "ss_check", "error") /\ needDelay' = TRUE

\* while self._running:   (imu_reader.py:301); on exit line 360
WhileRunning ==
    /\ pc[W] = "while"
    /\ IF _running THEN GotoIn(W, "if_socket", "-") ELSE GotoIn(W, "d_if", "cleanup")
    /\ UNCHANGED <<auto_reconnect, _running, _socket, sock, _state, _thread,
                   _latest_data, packets_received, buffer, imu_data, recvd,
                   notified, notifyLag, lost, needDelay, reported, peer, gvars, dvars, pvars, vvars, avars>>

\* if self._socket is None: self._connect() ... else line 313   (imu_reader.py:303-304)
IfSocketNone ==
    /\ pc[W] = "if_socket"
    /\ IF _socket = None THEN GotoIn(W, "ss_check", "connecting")
                         ELSE GotoIn(W, "recv_call", "-")
    /\ lost' = FALSE
    /\ UNCHANGED <<auto_reconnect, _running, _socket, sock, _state, _thread,
                   _latest_data, packets_received, buffer, imu_data, recvd,
                   notified, notifyLag, needDelay, reported, peer, gvars, dvars, pvars, vvars, avars>>

\* self._socket = socket.socket(...)   (imu_reader.py:261)
ConnectSocket ==
    /\ pc[W] = "connect_socket"
    /\ _socket' = "socket"
    /\ sock' = "fresh"
    /\ needDelay' = FALSE
    /\ Goto(W, "connect_settimeout")
    /\ UNCHANGED <<auto_reconnect, _running, _state, _thread,
                   _latest_data, packets_received, buffer, imu_data, ctx, recvd,
                   notified, notifyLag, lost, reported, peer, gvars, dvars, pvars, vvars, avars>>

\* socket.socket(...) raises OSError (no descriptor left): self._socket keeps
\* its value, the except OSError clause runs   (imu_reader.py:261, 282-285)
ConnectSocketError ==
    /\ pc[W] = "connect_socket"
    /\ ConnectFailed
    /\ NetLog("fail")
    /\ UNCHANGED <<auto_reconnect, _running, _socket, sock, _state, _thread,
                   _latest_data, packets_received, buffer, imu_data, recvd,
                   notified, notifyLag, lost, reported, gvars, dvars, pvars, vvars, avars>>

\* self._socket.settimeout(CONNECT_TIMEOUT)   (imu_reader.py:262)
\* OSError on a socket that was closed meanwhile.
ConnectSetTimeout ==
    /\ pc[W] = "connect_settimeout"
    /\ IF _socket = None THEN Crash /\ UNCHANGED needDelay
       ELSE IF sock = "closed" THEN ConnectFailed
       ELSE Goto(W, "connect_call") /\ UNCHANGED <<ctx, needDelay>>
    /\ UNCHANGED <<auto_reconnect, _running, _socket, sock, _state, _thread,
                   _latest_data, packets_received, buffer, imu_data, recvd,
                   notified, notifyLag, lost, reported, peer, gvars, dvars, pvars, vvars, avars>>

\* self._socket.connect((self.host, self.port)) is called   (imu_reader.py:265)
ConnectCall ==
    /\ pc[W] = "connect_call"
    /\ IF _socket = None THEN Crash ELSE Goto(W, "connect_wait") /\ UNCHANGED ctx
    /\ UNCHANGED <<auto_reconnect, _running, _socket, sock, _state, _thread,
                   _latest_data, packets_received, buffer, imu_data, recvd,
                   notified, notifyLag, lost, needDelay, reported, peer, gvars, dvars, pvars, vvars, avars>>

\* connect returns: the connection is established
ConnectOk ==
    /\ pc[W] = "connect_wait"
    /\ sock = "fresh"
    /\ sock' = "connected"
    /\ NetLog("accept")
    /\ Goto(W, "connect_settimeout2")
    /\ UNCHANGED <<auto_reconnect, _running, _socket, _state, _thread,
                   _latest_data, packets_received, buffer, imu_data, ctx, recvd,
                   notified, notifyLag, lost, needDelay, reported, gvars, dvars, pvars, vvars, avars>>

\* connect raises socket.timeout: the attempt is still pending in the kernel
ConnectTimeout ==
    /\ pc[W] = "connect_wait"
    /\ sock = "fresh"
    /\ sock' = "pending"
    /\ ConnectFailed
    /\ NetLog("fail")
    /\ UNCHANGED <<auto_reconnect, _running, _socket, _state, _thread,
                   _latest_data, packets_received, buffer, imu_data, recvd,
                   notified, notifyLag, lost, reported, gvars, dvars, pvars, vvars, avars>>

\* connect raises ConnectionRefusedError or another OSError; on a socket
\* closed meanwhile it raises OSError
ConnectOSError ==
    /\ pc[W] = "connect_wait"
    /\ sock \in {"fresh", "closed"}
    /\ sock' = IF sock = "fresh" THEN "dead" ELSE sock
    /\ ConnectFailed
    /\ NetLog("fail")
    /\ UNCHANGED <<auto_reconnect, _running, _socket, _state, _thread,
                   _latest_data, packets_received, buffer, imu_data, recvd,
                   notified, notifyLag, lost, reported, gvars, dvars, pvars, vvars, avars>>

\* self._socket.settimeout(READ_TIMEOUT); self._set_state(CONNECTED)
\* (imu_reader.py:266-268)
ConnectSetTimeout2 ==
    /\ pc[W] = "connect_settimeout2"
    /\ IF _socket = None THEN Crash /\ UNCHANGED needDelay
       ELSE IF sock = "closed" THEN ConnectFailed
       ELSE GotoIn(W, "ss_check", "connected") /\ UNCHANGED needDelay
    /\ UNCHANGED <<auto_reconnect, _running, _socket, sock, _state, _thread,
                   _latest_data, packets_received, buffer, imu_data, recvd,
                   notified, notifyLag, lost, reported, peer, gvars, dvars, pvars, vvars, avars>>

\* time.sleep(RECONNECT_DELAY) returns; continue   (imu_reader.py:306-307)
Sleep ==
    /\ pc[W] = "sleep"
    /\ needDelay' = FALSE
    /\ Goto(W, "while")
    /\ UNCHANGED <<auto_reconnect, _running, _socket, sock, _state, _thread,
                   _latest_data, packets_received, buffer, imu_data, ctx, recvd,
                   notified, notifyLag, lost, reported, peer, gvars, dvars, pvars, vvars, avars>>

\* self._socket.recv(4096) is called   (imu_reader.py:313)
RecvCall ==
    /\ pc[W] = "recv_call"
    /\ IF _socket = None THEN Crash ELSE Goto(W, "recv_wait") /\ UNCHANGED ctx
    /\ UNCHANGED <<auto_reconnect, _running, _socket, sock, _state, _thread,
                   _latest_data, packets_received, buffer, imu_data, recvd,
                   notified, notifyLag, lost, needDelay, reported, peer, gvars, dvars, pvars, vvars, avars>>

\* recv returns bytes; buffer += data   (imu_reader.py:313-321).  A socket
\* whose connect timed out may have completed the connection since.
RecvData ==
    /\ pc[W] = "recv_wait"
    /\ sock \in {"connected", "pending"}
    /\ recvd < MaxRecv
    /\ \E data \in RecvChunks : buffer' = buffer \o data
    /\ sock' = "connected"
    /\ recvd' = recvd + 1
    /\ NetLog("data")
    /\ Goto(W, "parse")
    /\ UNCHANGED <<auto_reconnect, _running, _socket, _state, _thread,
                   _latest_data, packets_received, imu_data, ctx,
                   notified, notifyLag, lost, needDelay, reported, gvars, dvars, pvars, vvars, avars>>

\* recv returns b'': self._disconnect(); buffer = b''; continue
\* (imu_reader.py:315-319)
RecvEmpty ==
    /\ pc[W] = "recv_wait"
    /\ sock \in {"connected", "pending"}
    /\ sock' = "connected"
    /\ lost' = (_state = CONNECTED)
    /\ needDelay' = TRUE
    /\ NetLog("close")
    /\ GotoIn(W, "d_if", "closed")
    /\ UNCHANGED <<auto_reconnect, _running, _socket, _state, _thread,
                   _latest_data, packets_received, buffer, imu_data, recvd,
                   notified, notifyLag, reported, gvars, dvars, pvars, vvars, avars>>

RecvTimeout_AsOSError ==
    /\ pc[W] = "recv_wait"
    /\ sock \in {"connected", "pending", "closed"}
    /\ GotoIn(W, "d_if", "oserror")
    /\ UNCHANGED <<auto_reconnect, _running, _socket, sock, _state, _thread,
                   _latest_data, packets_received, buffer, imu_data, recvd,
                   notified, notifyLag, lost, needDelay, reported, peer, gvars, dvars, pvars, vvars, avars>>

\* recv raises socket.timeout: continue   (imu_reader.py:350-352)
RecvTimeout ==
    /\ pc[W] = "recv_wait"
    /\ sock \in {"connected", "pending", "closed"}
    /\ Goto(W, "while")
    /\ UNCHANGED <<auto_reconnect, _running, _socket, sock, _state, _thread,
                   _latest_data, packets_received, buffer, imu_data, ctx, recvd,
                   notified, notifyLag, lost, needDelay, reported, peer, gvars, dvars, pvars, vvars, avars>>

\* recv raises ConnectionResetError, BrokenPipeError or another OSError
\* (a reset; a socket that is not connected or was closed):
\* self._disconnect(); buffer = b''   (imu_reader.py:354-357)
RecvOSError ==
    /\ pc[W] = "recv_wait"
    /\ lost' = (_state = CONNECTED)
    /\ needDelay' = TRUE
    /\ NetLog("fail")
    /\ GotoIn(W, "d_if", "oserror")
    /\ UNCHANGED <<auto_reconnect, _running, _socket, sock, _state, _thread,
                   _latest_data, packets_received, buffer, imu_data, recvd,
                   notified, notifyLag, reported, gvars, dvars, pvars, vvars, avars>>

Parse_NoConsume ==
    /\ pc[W] = "parse"
    /\ LET result == FindPacket(buffer)
       IN  IF result = NoData
             THEN /\ buffer' = IF Len(buffer) > CAP
                                 THEN SubSeq(buffer, Len(buffer) - TAIL + 1, Len(buffer))
                                 ELSE buffer
                  /\ Goto(W, "while")
                  /\ UNCHANGED <<imu_data, packets_received, imuSeq>>
             ELSE /\ imu_data' = result.data
                  /\ buffer' = SubSeq(buffer, result.consumed - 23, Len(buffer))
                  /\ packets_received' = packets_received + 1
                  /\ imuSeq' = packets_received + 1
                  /\ Goto(W, "store")
    /\ UNCHANGED <<auto_reconnect, _running, _socket, sock, _state, _thread,
                   _latest_data, ctx, recvd,
                   notified, notifyLag, lost, needDelay, reported, peer, gvars,
                   lastDelivered, pvars, vvars, avars>>

Parse_NoTruncate ==
    /\ pc[W] = "parse"
    /\ LET result == FindPacket(buffer)
       IN  IF result = NoData
             THEN /\ Goto(W, "while")
                  /\ UNCHANGED <<buffer, imu_data, packets_received, imuSeq>>
             ELSE /\ imu_data' = result.data
                  /\ buffer' = SubSeq(buffer, result.consumed + 1, Len(buffer))
                  /\ packets_received' = packets_received + 1
                  /\ imuSeq' = packets_received + 1
                  /\ Goto(W, "store")
    /\ UNCHANGED <<auto_reconnect, _running, _socket, sock, _state, _thread,
                   _latest_data, ctx, recvd,
                   notified, notifyLag, lost, needDelay, reported, peer, gvars,
                   lastDelivered, pvars, vvars, avars>>

Parse_TruncatesAtCap ==
    /\ pc[W] = "parse"
    /\ LET result == FindPacket(buffer)
       IN  IF result = NoData
             THEN /\ buffer' = IF Len(buffer) >= CAP
                                 THEN SubSeq(buffer, Len(buffer) - TAIL + 1, Len(buffer))
                                 ELSE buffer
                  /\ Goto(W, "while")
                  /\ UNCHANGED <<imu_data, packets_received, imuSeq>>
             ELSE /\ imu_data' = result.data
                  /\ buffer' = SubSeq(buffer, result.consumed + 1, Len(buffer))
                  /\ packets_received' = packets_received + 1
                  /\ imuSeq' = packets_received + 1
                  /\ Goto(W, "store")
    /\ UNCHANGED <<auto_reconnect, _running, _socket, sock, _state, _thread,
                   _latest_data, ctx, recvd,
                   notified, notifyLag, lost, needDelay, reported, peer, gvars,
                   lastDelivered, pvars, vvars, avars>>

\* one pass of the parse loop up to the store   (imu_reader.py:324-338)
Parse ==
    /\ pc[W] = "parse"
    /\ LET result == FindPacket(buffer)
       IN  IF result = NoData
             THEN /\ buffer' = IF Len(buffer) > CAP
                                 THEN SubSeq(buffer, Len(buffer) - TAIL + 1, Len(buffer))
                                 ELSE buffer
                  /\ Goto(W, "while")
                  /\ UNCHANGED <<imu_data, packets_received, imuSeq>>
             ELSE /\ imu_data' = result.data
                  /\ buffer' = SubSeq(buffer, result.consumed + 1, Len(buffer))
                  /\ packets_received' = packets_received + 1
                  /\ imuSeq' = packets_received + 1
                  /\ Goto(W, "store")
    /\ UNCHANGED <<auto_reconnect, _running, _socket, sock, _state, _thread,
                   _latest_data, ctx, recvd,
                   notified, notifyLag, lost, needDelay, reported, peer, gvars,
                   lastDelivered, pvars, vvars, avars>>

\* with self._data_lock: the lock is acquired   (imu_reader.py:340)
StoreAcquire ==
    /\ pc[W] = "store"
    /\ _data_lock = None
    /\ _data_lock' = W
    /\ Goto(W, "store_locked")
    /\ UNCHANGED <<auto_reconnect, _running, _socket, sock, _state, _thread,
                   _latest_data, packets_received, buffer, imu_data, ctx, recvd,
                   notified, notifyLag, lost, needDelay, reported, peer,
                   got, lastStored, storedSince, dvars, pvars, vvars, avars>>

Store_KeepsLock ==
    /\ pc[W] = "store_locked"
    /\ _latest_data' = imu_data
    /\ lastStored' = imu_data
    /\ storedSince' = TRUE
    /\ Goto(W, "on_data_call")
    /\ UNCHANGED <<auto_reconnect, _running, _socket, sock, _state, _thread,
                   packets_received, buffer, imu_data, ctx, recvd,
                   notified, notifyLag, lost, needDelay, reported, peer,
                   _data_lock, got, dvars, pvars, vvars, avars>>

Store_KeepsOld ==
    /\ pc[W] = "store_locked"
    /\ _latest_data' = _latest_data
    /\ _data_lock' = None
    /\ lastStored' = imu_data
    /\ storedSince' = TRUE
    /\ Goto(W, "on_data_call")
    /\ UNCHANGED <<auto_reconnect, _running, _socket, sock, _state, _thread,
                   packets_received, buffer, imu_data, ctx, recvd,
                   notified, notifyLag, lost, needDelay, reported, peer,
                   got, dvars, pvars, vvars, avars>>

\* self._latest_data = imu_data; the with block ends, the lock is released
\* (imu_reader.py:341)
Store ==
    /\ pc[W] = "store_locked"
    /\ _latest_data' = imu_data
    /\ _data_lock' = None
    /\ lastStored' = imu_data
    /\ storedSince' = TRUE
    /\ Goto(W, "on_data_call")
    /\ UNCHANGED <<auto_reconnect, _running, _socket, sock, _state, _thread,
                   packets_received, buffer, imu_data, ctx, recvd,
                   notified, notifyLag, lost, needDelay, reported, peer,
                   got, dvars, pvars, vvars, avars>>

\* self.on_data(imu_data) is invoked   (imu_reader.py:344-346)
OnDataCall ==
    /\ pc[W] = "on_data_call"
    /\ lastDelivered' = imuSeq
    /\ Goto(W, "on_data")
    /\ UNCHANGED <<auto_reconnect, _running, _socket, sock, _state, _thread,
                   _latest_data, packets_received, buffer, imu_data, ctx, recvd,
                   notified, notifyLag, lost, needDelay, reported, peer, gvars,
                   imuSeq, pvars, vvars, avars>>

\* on_data returns: next pass of the parse loop
OnDataReturn ==
    /\ pc[W] = "on_data"
    /\ imu_data' = NoData
    /\ Goto(W, "parse")
    /\ UNCHANGED <<auto_reconnect, _running, _socket, sock, _state, _thread,
                   _latest_data, packets_received, buffer, ctx, recvd,
                   notified, notifyLag, lost, needDelay, reported, peer, gvars, dvars, pvars, vvars, avars>>

OnDataRaise_Propagates ==
    /\ pc[W] = "on_data"
    /\ Goto(W, "crashed")
    /\ UNCHANGED <<auto_reconnect, _running, _socket, sock, _state, _thread,
                   _latest_data, packets_received, buffer, imu_data, ctx, recvd,
                   notified, notifyLag, lost, needDelay, reported, peer, gvars, dvars, pvars, vvars, avars>>

\* on_data raises: except Exception   (imu_reader.py:347)
OnDataRaise ==
    /\ pc[W] = "on_data"
    /\ Goto(W, "on_data_except")
    /\ UNCHANGED <<auto_reconnect, _running, _socket, sock, _state, _thread,
                   _latest_data, packets_received, buffer, imu_data, ctx, recvd,
                   notified, notifyLag, lost, needDelay, reported, peer, gvars, dvars, pvars, vvars, avars>>

OnDataExcept_DropsSample ==
    /\ pc[W] = "on_data_except"
    /\ imu_data' = NoData
    /\ _latest_data' = NoData
    /\ Goto(W, "parse")
    /\ UNCHANGED <<auto_reconnect, _running, _socket, sock, _state, _thread,
                   packets_received, buffer, ctx, recvd,
                   notified, notifyLag, lost, needDelay, reported, peer, gvars, dvars, pvars, vvars, avars>>

\* logger.error(...): next pass of the parse loop   (imu_reader.py:348)
OnDataExcept ==
    /\ pc[W] = "on_data_except"
    /\ imu_data' = NoData
    /\ Goto(W, "parse")
    /\ UNCHANGED <<auto_reconnect, _running, _socket, sock, _state, _thread,
                   _latest_data, packets_received, buffer, ctx, recvd,
                   notified, notifyLag, lost, needDelay, reported, peer, gvars, dvars, pvars, vvars, avars>>

----
\* start() and stop(), called by the client.

\* start()   (imu_reader.py:221-235); the new thread begins with buffer = b''
Start ==
    /\ pc[C] = "new"
    /\ IF _running
         THEN UNCHANGED <<_running, _thread, buffer>> /\ Goto(C, "started")
         ELSE /\ _running' = TRUE
              /\ _thread' = "thread"
              /\ buffer' = <<>>
              /\ pc' = [pc EXCEPT ![C] = "started", ![W] = "while"]
    /\ UNCHANGED <<auto_reconnect, _socket, sock, _state,
                   _latest_data, packets_received, imu_data, ctx, recvd,
                   notified, notifyLag, lost, needDelay, reported, peer, gvars, dvars, pvars, vvars, avars>>

\* stop() is called: self._running = False; self._disconnect()
\* (imu_reader.py:239-240)
StopBegin ==
    /\ pc[C] = "started"
    /\ _running' = FALSE
    /\ GotoIn(C, "d_if", "stop")
    /\ UNCHANGED <<auto_reconnect, _socket, sock, _state, _thread,
                   _latest_data, packets_received, buffer, imu_data, recvd,
                   notified, notifyLag, lost, needDelay, reported, peer, gvars, dvars, pvars, vvars, avars>>

\* if self._thread: self._thread.join(timeout=2.0) is called   (imu_reader.py:241-242)
StopIfThread ==
    /\ pc[C] = "if_thread"
    /\ Goto(C, IF _thread # None THEN "join" ELSE "returned")
    /\ UNCHANGED <<auto_reconnect, _running, _socket, sock, _state, _thread,
                   _latest_data, packets_received, buffer, imu_data, ctx, recvd,
                   notified, notifyLag, lost, needDelay, reported, peer, gvars, dvars, pvars, vvars, avars>>

\* join returns because the worker thread has ended
JoinEnded ==
    /\ pc[C] = "join"
    /\ ~WorkerAlive
    /\ Goto(C, "clear_thread")
    /\ UNCHANGED <<auto_reconnect, _running, _socket, sock, _state, _thread,
                   _latest_data, packets_received, buffer, imu_data, ctx, recvd,
                   notified, notifyLag, lost, needDelay, reported, peer, gvars, dvars, pvars, vvars, avars>>

\* join returns because its timeout of 2.0 s ran out while the worker was
\* inside a blocking call
JoinTimedOut ==
    /\ pc[C] = "join"
    /\ WorkerAlive /\ WorkerBlocked
    /\ Goto(C, "clear_thread")
    /\ UNCHANGED <<auto_reconnect, _running, _socket, sock, _state, _thread,
                   _latest_data, packets_received, buffer, imu_data, ctx, recvd,
                   notified, notifyLag, lost, needDelay, reported, peer, gvars, dvars, pvars, vvars, avars>>

\* self._thread = None; stop() returns   (imu_reader.py:243)
StopClearThread ==
    /\ pc[C] = "clear_thread"
    /\ _thread' = None
    /\ Goto(C, "returned")
    /\ UNCHANGED <<auto_reconnect, _running, _socket, sock, _state,
                   _latest_data, packets_received, buffer, imu_data, ctx, recvd,
                   notified, notifyLag, lost, needDelay, reported, peer, gvars, dvars, pvars, vvars, avars>>

SetState(t) ==
    \/ SsCheck(t) \/ SsAssign(t) \/ SsCall(t)
    \/ SsCallbackReturn(t) \/ SsCallbackRaise(t) \/ SsExcept(t)

Disconnect(t) == DisconnectIf(t) \/ DisconnectClose(t) \/ DisconnectClear(t)

Connect ==
    \/ ConnectSocket \/ ConnectSocketError \/ ConnectSetTimeout \/ ConnectCall
    \/ ConnectOk \/ ConnectOSError \/ ConnectTimeout \/ ConnectSetTimeout2

ReadLoop ==
    \/ WhileRunning \/ IfSocketNone \/ Sleep
    \/ RecvCall \/ RecvOSError \/ RecvTimeout \/ RecvData \/ RecvEmpty
    \/ Parse \/ StoreAcquire \/ Store \/ OnDataCall \/ OnDataReturn \/ OnDataRaise \/ OnDataExcept

Stop == StopBegin \/ StopIfThread \/ JoinEnded \/ JoinTimedOut \/ StopClearThread

Next ==
    \/ Start
    \/ Stop
    \/ ReadLoop
    \/ Connect
    \/ \E t \in Threads : SetState(t) \/ Disconnect(t)

Spec == Init /\ [][Next]_vars

\* a step of the worker thread
WorkerStep == ReadLoop \/ Connect \/ SetState(W) \/ Disconnect(W)

-----------------------------------------------------------------------------
(* start() called again after stop() has returned.  The thread it creates  *)
(* is followed up to its start: it is alive and about to evaluate          *)
(* while self._running.                                                     *)

\* start()   (imu_reader.py:221-235)
Restart ==
    /\ pc[C] = "returned"
    /\ IF _running
         THEN UNCHANGED <<_running, _thread>> /\ Goto(C, "restarted")
         ELSE /\ _running' = TRUE
              /\ _thread' = W2
              /\ pc' = [pc EXCEPT ![C] = "restarted", ![W2] = "while"]
    /\ UNCHANGED <<auto_reconnect, _socket, sock, _state,
                   _latest_data, packets_received, buffer, imu_data, ctx, recvd,
                   notified, notifyLag, lost, needDelay, reported, peer, gvars, dvars, pvars, vvars, avars>>

RestartNext == Next \/ Restart

SpecRestart == Init /\ [][RestartNext]_vars

-----------------------------------------------------------------------------
(* get_latest(), called by a consumer thread at any time and by the worker *)
(* thread itself from inside the on_data callback.  stop() is not called.  *)

\* where thread t is when it is not inside get_latest()
GetSite(t) == IF t = W THEN "on_data" ELSE "g_idle"

\* get_latest() is called   (imu_reader.py:216)
GetCall(t) ==
    /\ t \in {G, W}
    /\ pc[t] = GetSite(t)
    /\ Goto(t, "get_acquire")
    /\ UNCHANGED <<auto_reconnect, _running, _socket, sock, _state, _thread,
                   _latest_data, packets_received, buffer, imu_data, ctx, recvd,
                   notified, notifyLag, lost, needDelay, reported, peer, gvars, dvars, pvars, vvars, avars>>

\* with self._data_lock: the lock is acquired   (imu_reader.py:218)
GetAcquire(t) ==
    /\ pc[t] = "get_acquire"
    /\ _data_lock = None
    /\ _data_lock' = t
    /\ Goto(t, "get_locked")
    /\ UNCHANGED <<auto_reconnect, _running, _socket, sock, _state, _thread,
                   _latest_data, packets_received, buffer, imu_data, ctx, recvd,
                   notified, notifyLag, lost, needDelay, reported, peer,
                   got, lastStored, storedSince, dvars, pvars, vvars, avars>>

GetReturn_Takes(t) ==
    /\ pc[t] = "get_locked"
    /\ got' = _latest_data
    /\ _latest_data' = NoData
    /\ storedSince' = FALSE
    /\ _data_lock' = None
    /\ Goto(t, GetSite(t))
    /\ UNCHANGED <<auto_reconnect, _running, _socket, sock, _state, _thread,
                   packets_received, buffer, imu_data, ctx, recvd,
                   notified, notifyLag, lost, needDelay, reported, peer,
                   lastStored, dvars, pvars, vvars, avars>>

\* return self._latest_data; the lock is released   (imu_reader.py:219)
GetReturn(t) ==
    /\ pc[t] = "get_locked"
    /\ got' = _latest_data
    /\ storedSince' = FALSE
    /\ _data_lock' = None
    /\ Goto(t, GetSite(t))
    /\ UNCHANGED <<auto_reconnect, _running, _socket, sock, _state, _thread,
                   _latest_data, packets_received, buffer, imu_data, ctx, recvd,
                   notified, notifyLag, lost, needDelay, reported, peer,
                   lastStored, dvars, pvars, vvars, avars>>

GetLatest(t) == GetCall(t) \/ GetAcquire(t) \/ GetReturn(t)

ConsumerNext ==
    \/ Start
    \/ ReadLoop
    \/ Connect
    \/ SetState(W)
    \/ Disconnect(W)
    \/ \E t \in {G, W} : GetLatest(t)

SpecConsumer == Init /\ [][ConsumerNext]_vars

-----------------------------------------------------------------------------
(* A peer that sends only bytes in which no window is valid, in chunks of   *)
(* up to 4096 bytes, for as long as the reader reads.                       *)

\* n zero bytes
JunkChunk(n) == [i \in 1..n |-> 0]

\* the sizes of the chunks recv(4096) returns
JunkSizes == {1022, 1024, 2048, 4096}

\* recv returns bytes; buffer += data   (imu_reader.py:313-321)
RecvJunk ==
    /\ pc[W] = "recv_wait"
    /\ sock = "connected"
    /\ \E n \in JunkSizes : buffer' = buffer \o JunkChunk(n)
    /\ NetLog("data")
    /\ Goto(W, "parse")
    /\ UNCHANGED <<auto_reconnect, _running, _socket, sock, _state, _thread,
                   _latest_data, packets_received, imu_data, ctx, recvd,
                   notified, notifyLag, lost, needDelay, reported, gvars, dvars, pvars, vvars, avars>>

GrowthNext ==
    \/ Start
    \/ WhileRunning \/ IfSocketNone
    \/ ConnectSocket \/ ConnectSetTimeout \/ ConnectCall \/ ConnectOk
    \/ ConnectSetTimeout2
    \/ SetState(W)
    \/ RecvCall \/ RecvJunk \/ RecvTimeout
    \/ Parse

SpecGrowth == Init /\ [][GrowthNext]_vars

\* chunks of junk, some with a marker or a valid payload inside: zeros;
\* zeros, then 24 bytes that are not a valid payload at any offset, then
\* zeros; zeros, then PayloadA, then zeros
MixedChunks == {JunkChunk(4096),
                JunkChunk(1284) \o PayloadMag9 \o JunkChunk(500),
                JunkChunk(1024) \o PayloadA \o JunkChunk(2048)}

\* recv returns at most this many mixed chunks
MaxMixed == 4

\* recv returns bytes; buffer += data   (imu_reader.py:313-321)
RecvMixed ==
    /\ pc[W] = "recv_wait"
    /\ sock = "connected"
    /\ recvd < MaxMixed
    /\ \E data \in MixedChunks : buffer' = buffer \o data
    /\ recvd' = recvd + 1
    /\ NetLog("data")
    /\ Goto(W, "parse")
    /\ UNCHANGED <<auto_reconnect, _running, _socket, sock, _state, _thread,
                   _latest_data, packets_received, imu_data, ctx,
                   notified, notifyLag, lost, needDelay, reported, gvars, dvars, pvars, vvars, avars>>

TruncNext ==
    \/ Start
    \/ WhileRunning \/ IfSocketNone
    \/ ConnectSocket \/ ConnectSetTimeout \/ ConnectCall \/ ConnectOk
    \/ ConnectSetTimeout2
    \/ SetState(W)
    \/ RecvCall \/ RecvMixed \/ RecvTimeout
    \/ Parse
    \/ StoreAcquire \/ Store
    \/ OnDataCall \/ OnDataReturn \/ OnDataRaise \/ OnDataExcept

SpecTrunc == Init /\ [][TruncNext]_vars

\* a valid payload that arrives in three pieces, four bytes after it, and a
\* second valid payload that arrives in two pieces
SplitParts == <<SubSeq(PayloadA, 1, 4), SubSeq(PayloadA, 5, 12),
                SubSeq(PayloadA, 13, 24), Zero,
                SubSeq(PayloadB, 1, 12), SubSeq(PayloadB, 13, 24)>>

\* recv returns the next piece; buffer += data   (imu_reader.py:313-321)
RecvSplit ==
    /\ pc[W] = "recv_wait"
    /\ sock = "connected"
    /\ recvd < Len(SplitParts)
    /\ buffer' = buffer \o SplitParts[recvd + 1]
    /\ recvd' = recvd + 1
    /\ NetLog("data")
    /\ Goto(W, "parse")
    /\ UNCHANGED <<auto_reconnect, _running, _socket, sock, _state, _thread,
                   _latest_data, packets_received, imu_data, ctx,
                   notified, notifyLag, lost, needDelay, reported, gvars, dvars, pvars, vvars, avars>>

SplitNext ==
    \/ Start
    \/ WhileRunning \/ IfSocketNone
    \/ ConnectSocket \/ ConnectSetTimeout \/ ConnectCall \/ ConnectOk
    \/ ConnectSetTimeout2
    \/ SetState(W)
    \/ RecvCall \/ RecvSplit \/ RecvTimeout
    \/ Parse
    \/ StoreAcquire \/ Store
    \/ OnDataCall \/ OnDataReturn \/ OnDataRaise \/ OnDataExcept

SpecSplit == Init /\ [][SplitNext]_vars

\* chunks that hold several valid payloads back to back: two, three, and two
\* with four zero bytes between them
BurstChunks == {PayloadA \o PayloadB \o Zero,
                PayloadB \o PayloadA \o PayloadB \o Zero,
                PayloadA \o Zero \o PayloadB \o Zero}

\* recv returns at most this many bursts
MaxBurst == 2

\* recv returns bytes; buffer += data   (imu_reader.py:313-321)
RecvBurst ==
    /\ pc[W] = "recv_wait"
    /\ sock = "connected"
    /\ recvd < MaxBurst
    /\ \E data \in BurstChunks : buffer' = buffer \o data
    /\ recvd' = recvd + 1
    /\ NetLog("data")
    /\ Goto(W, "parse")
    /\ UNCHANGED <<auto_reconnect, _running, _socket, sock, _state, _thread,
                   _latest_data, packets_received, imu_data, ctx,
                   notified, notifyLag, lost, needDelay, reported, gvars, dvars, pvars, vvars, avars>>

BurstNext ==
    \/ Start
    \/ WhileRunning \/ IfSocketNone
    \/ ConnectSocket \/ ConnectSetTimeout \/ ConnectCall \/ ConnectOk
    \/ ConnectSetTimeout2
    \/ SetState(W)
    \/ RecvCall \/ RecvBurst \/ RecvTimeout
    \/ Parse
    \/ StoreAcquire \/ Store
    \/ OnDataCall \/ OnDataReturn \/ OnDataRaise \/ OnDataExcept

SpecBurst == Init /\ [][BurstNext]_vars

-----------------------------------------------------------------------------
(* Parser harness: build a buffer from pieces, then call find_packet,      *)
(* _parse_message or _parse_message_search on it.                          *)

MaxPieces == 3

\* 168 bytes that hold no valid window: what precedes the IMU data in a message
Pad168 == JunkChunk(MsgDataStart)

ParserPieces ==
    {PayloadA, PayloadB, PayloadMag9, PayloadMag11, PayloadGyro10, Zero, JunkByte,
     Pad168}

ParserInit ==
    /\ AlphabetRepresentable
    /\ auto_reconnect = TRUE
    /\ ReaderIdle
    /\ ParserIdle
    /\ VideoIdle
    /\ vseed = 1
    /\ AppIdle

PAppend ==
    /\ ppc = "build"
    /\ pn < MaxPieces
    /\ \E piece \in ParserPieces : pbuf' = pbuf \o piece
    /\ pn' = pn + 1
    /\ UNCHANGED <<pres, ppc, rvars, vvars, avars>>

PFind ==
    /\ ppc = "build"
    /\ pres' = FindPacket(pbuf)
    /\ ppc' = "found"
    /\ UNCHANGED <<pbuf, pn, rvars, vvars, avars>>

PParseMessage ==
    /\ ppc = "build"
    /\ pres' = ParseMessage(pbuf)
    /\ ppc' = "parsed"
    /\ UNCHANGED <<pbuf, pn, rvars, vvars, avars>>

PParseMessageSearch ==
    /\ ppc = "build"
    /\ pres' = ParseMessageSearch(pbuf)
    /\ ppc' = "searched"
    /\ UNCHANGED <<pbuf, pn, rvars, vvars, avars>>

ParserNext == PAppend \/ PFind \/ PParseMessage \/ PParseMessageSearch

SpecParser == ParserInit /\ [][ParserNext]_vars

-----------------------------------------------------------------------------
(* Properties.                                                             *)

\* The plausibility predicate of the design: each rotation value strictly
\* between -10 and 10, acceleration magnitude strictly between 9.0 and 11.0.
Plausible(values) ==
    /\ \A i \in 1..3 : GyroInRange(values[i])
    /\ AccelInRange(values[4], values[5], values[6])

PlausibleSample(d) ==
    Plausible(<<d.gyro_x, d.gyro_y, d.gyro_z, d.accel_x, d.accel_y, d.accel_z>>)

\* the offsets of all 24-byte windows of buf
Windows(buf) == 0..(Len(buf) - 24)

StopCalled == pc[C] \notin {"new", "started"}
StopReturned == pc[C] = "returned"

\* the worker is inside its loop: started, not ended, not in the final cleanup
InLoop == WorkerAlive /\ ctx[W] # "cleanup"

\* C1: a buffer whose only plausible window lies at a 4-byte-aligned offset
\* k <= len - 24 makes find_packet return the six values at k, in wire
\* order, with consumed length k + 24.
C1_SingleWindowFound ==
    ppc = "found" =>
        \A k \in Windows(pbuf) :
            (/\ k % 4 = 0
             /\ \A j \in Windows(pbuf) : Plausible(Unpack6f(pbuf, j)) <=> (j = k))
            => LET v == Unpack6f(pbuf, k)
               IN  pres = [data |-> [gyro_x |-> v[1], gyro_y |-> v[2], gyro_z |-> v[3],
                                     accel_x |-> v[4], accel_y |-> v[5], accel_z |-> v[6]],
                           consumed |-> k + 24]

\* C2: every sample in the latest-value slot, and every sample on_data is
\* running with, satisfies the plausibility predicate with strict bounds.
C2_OnlyPlausibleSamples ==
    /\ _latest_data # NoData => PlausibleSample(_latest_data)
    /\ pc[W] \in {"on_data", "on_data_except"} => PlausibleSample(imu_data)

\* C2 witness: the worker first received a window of magnitude exactly 9.0
\* and delivered nothing, then received PayloadA and is inside on_data with it.
C2_Witness ==
    /\ pc[W] = "on_data"
    /\ recvd = 2 /\ packets_received = 1 /\ Len(buffer) = 4
    /\ imu_data = ImuData(Unpack6f(PayloadA, 0))
    /\ _latest_data = imu_data

\* C3: on_state_change is never invoked twice in a row with the same state,
\* and whenever no thread is between the assignment and the notification
\* the number of invocations equals the number of changes of _state.
C3_NotifyOncePerChange ==
    /\ []((\A t \in Threads : pc[t] \notin {"ss_call"}) => notifyLag = 0)
    /\ [][(\E t \in Threads : pc[t] = "ss_call" /\ pc'[t] = "ss_in_cb")
            => notified' # notified]_vars

\* C4: with auto_reconnect and no stop(), the state change that follows
\* ERROR is ERROR -> CONNECTING.
C4_ErrorThenConnecting ==
    [][(auto_reconnect /\ ~StopCalled /\ _state = ERROR /\ _state' # ERROR)
        => _state' = CONNECTING]_vars

\* C5: when stop() has returned, no worker thread is running.
C5_StopJoinsWorker ==
    StopReturned => ~WorkerAlive

\* C6: once stop() has been called the worker starts no connect attempt;
\* once stop() has returned no callback is invoked and the state is and
\* stays DISCONNECTED.
C6_StopIsTerminal ==
    [][/\ StopCalled => ~(pc[W] = "if_socket" /\ ctx'[W] = "connecting")
       /\ StopReturned =>
            /\ ~(\E t \in Threads : pc[t] = "ss_call" /\ pc'[t] = "ss_in_cb")
            /\ ~(pc[W] = "on_data_call" /\ pc'[W] = "on_data")
            /\ _state' = DISCONNECTED]_vars

\* C7: the worker never ends through an exception no handler catches.
C7_NoUncaughtException ==
    pc[W] # "crashed"

\* C8: with auto_reconnect and stop() never called, a started worker is
\* always inside its loop.
C8_WorkerStaysInLoop ==
    (auto_reconnect /\ pc[C] = "started") => InLoop

\* C8 witness: the worker has delivered a sample, lost the connection, failed
\* to reconnect, and is in the reconnect sleep.
C8_Witness ==
    /\ auto_reconnect /\ pc[C] = "started"
    /\ pc[W] = "sleep" /\ packets_received >= 1 /\ _state = ERROR

\* C9: after an established connection is lost (recv returned b'' or
\* raised an OSError while CONNECTED), when the worker gets to its next
\* read or connect the socket is closed and cleared, the buffer is empty
\* and the state is DISCONNECTED.
C9_LossDisconnectsFirst ==
    (lost /\ pc[W] = "if_socket") =>
        /\ _socket = None /\ sock = "closed"
        /\ buffer = <<>>
        /\ _state = DISCONNECTED

\* C9 witness: a connection that had delivered bytes was lost and the worker
\* is about to connect again.
C9_Witness ==
    lost /\ pc[W] = "if_socket" /\ recvd >= 1 /\ packets_received = 0

\* C10: with auto_reconnect, no connect attempt starts after a transient
\* connection error without the reconnect delay in between.
C10_DelayBeforeReconnect ==
    (auto_reconnect /\ ctx[W] = "connecting") => ~needDelay

\* C11: with auto_reconnect and no stop(), when the peer has accepted a
\* connection, closed it without delivering data and accepted the next
\* connection, the worker is still in its loop, and once the last
\* notification is out the states reported are CONNECTED, DISCONNECTED,
\* CONNECTING, CONNECTED, in this order.
C11_ReconnectScenario ==
    (auto_reconnect /\ ~StopCalled /\ peer = <<"accept", "close", "accept">>) =>
        /\ InLoop
        /\ pc[W] \in {"ss_in_cb", "ss_except", "recv_call", "recv_wait", "while", "if_socket"}
             => reported = <<CONNECTED, DISCONNECTED, CONNECTING, CONNECTED>>

\* C11 witness: the scenario has happened and the worker is reading again.
C11_Witness ==
    /\ auto_reconnect /\ ~StopCalled /\ peer = <<"accept", "close", "accept">>
    /\ pc[W] = "recv_wait" /\ _state = CONNECTED
    /\ reported = <<CONNECTED, DISCONNECTED, CONNECTING, CONNECTED>>

\* The number of steps the worker has left, at most, from the report of a
\* failed connect (call site "error") through the final _disconnect() (call
\* site "cleanup") to the end of the thread.
ExitRank ==
    LET inSetState == CASE pc[W] = "ss_check"  -> 5
                        [] pc[W] = "ss_assign" -> 4
                        [] pc[W] = "ss_call"   -> 3
                        [] pc[W] = "ss_in_cb"  -> 2
                        [] pc[W] = "ss_except" -> 1
                        [] OTHER -> 99
    IN  CASE pc[W] = "done" -> 0
          [] ctx[W] = "error" -> 8 + inSetState
          [] ctx[W] = "cleanup" /\ pc[W] = "d_if" -> 8
          [] ctx[W] = "cleanup" /\ pc[W] = "d_close" -> 7
          [] ctx[W] = "cleanup" /\ pc[W] = "d_none" -> 6
          [] ctx[W] = "cleanup" -> inSetState
          [] OTHER -> 99

\* C12: with auto_reconnect = False, once a connect attempt has failed the
\* worker only reports ERROR, runs the final _disconnect() and ends: it never
\* gets back to a connect attempt, it can always take its next step, and
\* each of its steps brings it closer to the end of the thread.
C12_NoReconnectEnds ==
    /\ []((~auto_reconnect /\ ctx[W] \in {"error", "cleanup"}) =>
            (ExitRank < 99 /\ ENABLED WorkerStep))
    /\ [][(~auto_reconnect /\ ctx[W] \in {"error", "cleanup"}) =>
            /\ <<pc[W], ctx[W]>>' # <<pc[W], ctx[W]>> => ExitRank' < ExitRank
            /\ ctx'[W] \in {"error", "cleanup"} \/ pc'[W] = "done"]_vars
    /\ [][pc[W] = "done" => pc'[W] = "done"]_vars

\* C12 witness: without stop(), the worker has ended after a failed connect,
\* having reported ERROR and then DISCONNECTED.
C12_Witness ==
    /\ ~auto_reconnect /\ ~StopCalled /\ pc[W] = "done"
    /\ Len(reported) >= 2
    /\ reported[Len(reported) - 1] = ERROR /\ reported[Len(reported)] = DISCONNECTED
    /\ _socket = None /\ _state = DISCONNECTED

\* C13: when no valid frame is ever found, the buffer holds at most CAP
\* bytes at the end of every pass of the read loop, however many passes.
C13_BufferBounded ==
    pc[W] \in {"while", "if_socket", "recv_call", "recv_wait"} => Len(buffer) <= CAP

\* C13 witness: a pass has ended right after the buffer, grown past CAP
\* without a frame, was cut to its last TAIL bytes.
C13_Witness ==
    pc[W] = "while" /\ Len(buffer) = TAIL /\ packets_received = 0

\* a step in which thread t returns from get_latest()
GetReturns(t) == pc[t] = "get_locked" /\ pc'[t] # "get_locked"

\* C14: get_latest() returns None while no sample has been decoded and
\* otherwise the sample the worker stored last; it returns what the previous
\* call returned when the worker has not stored in between; and no step of
\* get_latest() changes the reader's attributes other than the lock, which
\* is free again when it returns.
C14_GetLatest ==
    [][\A t \in {G, W} :
        /\ GetReturns(t) =>
              /\ got' = lastStored
              /\ packets_received = 0 => got' = NoData
              /\ (got # [unset |-> TRUE] /\ ~storedSince) => got' = got
              /\ _data_lock' = None
        /\ pc[t] \in {"get_acquire", "get_locked"} /\ pc'[t] # pc[t] =>
              UNCHANGED <<_running, _socket, sock, _state, _thread, _latest_data,
                          packets_received, buffer, imu_data>>]_vars

\* C14 witness: the consumer's get_latest() has returned the one sample the
\* worker has stored.
C14_Witness ==
    /\ got = ImuData(Unpack6f(PayloadA, 0)) /\ got = lastStored
    /\ pc[G] = "g_idle" /\ ~storedSince /\ packets_received = 1

\* C15: the worker does not hold the data lock while on_data runs; it holds
\* it only between acquiring it for the slot replacement (or for a
\* get_latest() of the callback) and the release that is its next step; so
\* a thread waiting in get_latest(), the callback included, either can take
\* the lock or waits for a holder, another thread, whose release is enabled,
\* whether or not the callback ever returns.
C15_CallbackOutsideLock ==
    /\ pc[W] \in {"on_data_call", "on_data", "on_data_except"} => _data_lock # W
    /\ _data_lock = W => pc[W] \in {"store_locked", "get_locked"}
    /\ \A t \in {G, W} :
          pc[t] = "get_acquire" =>
              \/ ENABLED GetAcquire(t)
              \/ \E h \in {G, W} :
                    /\ h # t /\ _data_lock = h
                    /\ IF pc[h] = "get_locked" THEN ENABLED GetReturn(h) ELSE ENABLED Store

\* C15 witness: inside the on_data callback, get_latest() holds the lock and
\* is about to return the sample the callback was called with, while the
\* consumer thread waits for the lock.
C15_Witness ==
    /\ pc[W] = "get_locked" /\ _data_lock = W /\ pc[G] = "get_acquire"
    /\ imu_data # NoData /\ _latest_data = imu_data

\* C16: when on_data raises, the slot keeps the sample the callback was
\* called with, the buffer keeps starting after that sample, and the worker
\* goes to the next pass of its parse loop; when on_state_change raises,
\* _state keeps its value (the state just set, when no stop() interferes)
\* and the worker goes on as after a return: it ends only if the call was
\* the one of the final _disconnect().
C16_CallbackRaiseIsolated ==
    [][/\ (pc[W] = "on_data" /\ pc'[W] = "on_data_except") =>
             /\ _latest_data = imu_data
             /\ UNCHANGED <<_latest_data, buffer, packets_received>>
       /\ (pc[W] = "on_data_except" /\ pc'[W] # "on_data_except") =>
             /\ pc'[W] = "parse"
             /\ UNCHANGED <<_latest_data, buffer, packets_received>>
       /\ \A t \in Threads :
             /\ (pc[t] = "ss_in_cb" /\ pc'[t] = "ss_except") =>
                   /\ _state' = _state
                   /\ ~StopCalled => _state = Target(ctx[t])
             /\ (pc[t] = "ss_except" /\ pc'[t] # "ss_except") =>
                   /\ _state' = _state
                   /\ pc'[t] # "crashed"
                   /\ t = W => (pc'[t] = "done" <=> ctx[t] = "cleanup")]_vars

\* C16 witness: on_data has raised for the second sample of the run; the
\* slot holds that sample and the buffer holds what followed it.
C16_Witness ==
    /\ pc[W] = "on_data_except" /\ packets_received = 2
    /\ _latest_data = imu_data /\ imu_data = ImuData(Unpack6f(PayloadA, 0))
    /\ buffer = Zero

\* buf ends with tail
IsSuffix(tail, buf) ==
    /\ Len(tail) <= Len(buf)
    /\ tail = SubSeq(buf, Len(buf) - Len(tail) + 1, Len(buf))

\* buf starts with head
IsPrefix(head, buf) ==
    /\ Len(head) <= Len(buf)
    /\ head = SubSeq(buf, 1, Len(head))

C18_SingleWorker ==
    ~(WorkerAlive /\ pc[W2] # "idle")

\* the 4-byte-aligned offsets of buf whose 24-byte window is plausible
PlausibleOffsets(buf) ==
    {k \in Windows(buf) : k % 4 = 0 /\ Plausible(Unpack6f(buf, k))}

\* C19: when two or more 4-byte-aligned windows of the buffer are plausible,
\* find_packet returns the sample of the one with the lowest offset and that
\* offset + 24; whatever it returns was decoded from a window that lies
\* inside the buffer, and the consumed length is at most len(buffer).
C19_LowestOffsetWins ==
    ppc = "found" =>
        /\ Cardinality(PlausibleOffsets(pbuf)) >= 2 =>
              LET k == CHOOSE o \in PlausibleOffsets(pbuf) :
                           \A q \in PlausibleOffsets(pbuf) : o <= q
              IN  /\ pres # NoData
                  /\ pres.consumed = k + 24
                  /\ pres.data = ImuData(Unpack6f(pbuf, k))
        /\ pres # NoData =>
              /\ pres.consumed <= Len(pbuf)
              /\ pres.consumed - 24 \in PlausibleOffsets(pbuf)

\* C19 witness: plausible windows at offsets 20 and 24 of a 48-byte buffer
\* (the second is the last window of the buffer); find_packet returned the
\* one at 20.
C19_Witness ==
    /\ ppc = "found" /\ Len(pbuf) = 48
    /\ PlausibleOffsets(pbuf) = {20, 24}
    /\ pres # NoData /\ pres.consumed = 44

\* the samples the plausible 4-byte-aligned windows of buf hold, in wire order
WireSamples(buf) ==
    {ImuData(Unpack6f(buf, k)) : k \in PlausibleOffsets(buf)}

\* C20: what _parse_message and _parse_message_search return is the sample
\* of a plausible window with values 0,1,2 as gyro x,y,z and values 3,4,5 as
\* accel x,y,z; _parse_message_search, which scans as find_packet does,
\* returns the sample find_packet returns for the same bytes.
C20_WireOrderEverywhere ==
    /\ (ppc \in {"parsed", "searched"} /\ pres # NoData) => pres \in WireSamples(pbuf)
    /\ ppc = "searched" =>
          pres = (IF FindPacket(pbuf) = NoData THEN NoData ELSE FindPacket(pbuf).data)

\* C21: after each receive pass the video buffer holds fewer than
\* PACKET_SIZE bytes, the number of frames queued so far is the number of
\* bytes received divided by PACKET_SIZE, rounded down, and the i-th of them
\* (from 0) was decoded from the PACKET_SIZE stream bytes starting at
\* i * PACKET_SIZE.
C21_FramingBySize ==
    vpc \in {"while", "recv", "ended"} =>
        /\ vbuffer.len < PACKET_SIZE
        /\ Len(vextracted) = vtotal \div PACKET_SIZE
        /\ \A i \in 1..Len(vextracted) :
              vextracted[i] = [start |-> (i - 1) * PACKET_SIZE, len |-> PACKET_SIZE]

\* C21 witness: a pass has ended with two frames queued and a partial
\* packet left in the buffer.
C21_Witness ==
    /\ vpc = "while" /\ Len(vextracted) = 2 /\ vbuffer.len > 0
    /\ frame_count = 0 /\ Len(frame_queue) = 2

\* the pixel positions the decode is checked at
SampleRows == {0, 1, 188, 377}
SampleCols == {0, 1, 180, 191, 255, 511}

\* C22: whenever a packet is decoded and its frame queued, at each sampled
\* position (x, y) the frame's pixel[y][x] is ((b >> 4) & 0xF) * 17 for the
\* packet byte b at index 320 + y*512 + x, lies in 0..255, and is the same
\* for every low nibble of b.
C22_PixelDecode ==
    [][Len(vextracted') > Len(vextracted) =>
         LET packet == vextracted'[Len(vextracted')]
             frame == frame_queue'[Len(frame_queue')]
         IN  /\ packet.len = 193862
             /\ \A y \in SampleRows, x \in SampleCols :
                   LET b == ByteAt(packet, 320 + y * 512 + x)
                   IN  /\ Pixel(frame, y, x) = ((b \div 16) % 16) * 17
                       /\ Pixel(frame, y, x) \in 0..255
                       /\ \A low \in 0..15 :
                             DecodePixel((b - (b % 16)) + low) = Pixel(frame, y, x)]_vars

\* C22 witness: a queued frame has a sampled pixel of 255 decoded from a byte
\* whose low nibble is not zero, and another sampled pixel that is 0.
C22_Witness ==
    /\ Len(vextracted) >= 1 /\ Len(frame_queue) >= 1
    /\ frame_queue[1] = DecodeFrame(vextracted[1])
    /\ \E y \in SampleRows, x \in SampleCols :
          LET b == ByteAt(vextracted[1], 320 + y * 512 + x)
          IN  b \div 16 = 15 /\ b % 16 # 0 /\ Pixel(frame_queue[1], y, x) = 255
    /\ \E y \in SampleRows, x \in SampleCols : Pixel(frame_queue[1], y, x) = 0

\* C23: after stop() on a started reader, once stop() has returned and the
\* worker has taken its last step (nothing is left to run until start() is
\* called again), the worker has terminated, the socket reference is None
\* and the state is DISCONNECTED.
C23_StopComesToRest ==
    (StopReturned /\ pc[W] # "idle" /\ ~ENABLED WorkerStep) =>
        /\ ~WorkerAlive
        /\ _socket = None
        /\ _state = DISCONNECTED

\* C24: in a parse pass in which find_packet finds no frame, a buffer of
\* more than 10000 bytes is replaced by exactly its last 1000 bytes and a
\* buffer of 10000 bytes or fewer is left unchanged; in a pass in which
\* find_packet finds a frame the buffer is not truncated: it loses the bytes
\* up to the end of the frame and nothing else.
C24_TruncationPolicy ==
    [][(pc[W] = "parse" /\ pc'[W] # "parse") =>
         LET result == FindPacket(buffer)
         IN  IF result = NoData
               THEN /\ Len(buffer) > 10000 =>
                          Len(buffer') = 1000 /\ IsSuffix(buffer', buffer)
                    /\ Len(buffer) <= 10000 => buffer' = buffer
               ELSE /\ Len(buffer') = Len(buffer) - result.consumed
                    /\ IsSuffix(buffer', buffer)]_vars

\* C24 witness: a pass that found no frame has ended with the buffer at
\* exactly 10000 bytes, a marker among them.
C24_Witness ==
    /\ pc[W] = "while" /\ Len(buffer) = 10000 /\ packets_received = 0
    /\ \E i \in 1..Len(buffer) : buffer[i] # 0

\* C25: a valid 4-byte-aligned payload whose 24 bytes arrive in several
\* recv calls is delivered exactly once, in the pass in which its last byte
\* is appended: when the pass that appended the last byte of the first
\* (second) payload has ended, one (two) samples have been extracted and
\* handed to on_data, and never more samples than payloads received.
C25_SplitPayloadDelivered ==
    /\ packets_received <= (IF recvd >= 6 THEN 2 ELSE IF recvd >= 3 THEN 1 ELSE 0)
    /\ (pc[W] = "while" /\ recvd >= 3) =>
          (packets_received >= 1 /\ lastDelivered = packets_received)
    /\ (pc[W] = "while" /\ recvd >= 6) => packets_received = 2

\* C26: from CONNECTING the next change of state is to CONNECTED or to
\* ERROR, never to DISCONNECTED, whatever stop() does meanwhile.
C26_ConnectingThenConnectedOrError ==
    [][(_state = CONNECTING /\ _state' # CONNECTING) =>
          _state' \in {CONNECTED, ERROR}]_vars

\* C27: the packet size is the header size plus the image size (193,862 =
\* 320 + 512*378): the image of every packet that is decoded starts right
\* after the 320-byte header, has 512*378 bytes and ends where the packet
\* ends, so no byte of the packet is left undecoded.
C27_LayoutAddsUp ==
    [][Len(vextracted') > Len(vextracted) =>
         LET packet == vextracted'[Len(vextracted')]
             frame == frame_queue'[Len(frame_queue')]
         IN  /\ packet.len = 193862
             /\ frame.data.start = packet.start + 320
             /\ frame.data.len = 512 * 378
             /\ frame.data.start + frame.data.len = packet.start + packet.len]_vars

\* C27, amended: the packet size is the header size plus the image size
\* plus 6 (193,862 = 320 + 512*378 + 6): the image of every packet that is
\* decoded starts right after the 320-byte header and has 512*378 bytes, one
\* per pixel, the last pixel read from the packet's 7th byte from the end;
\* the last 6 bytes of the packet are decoded into no pixel.
C27_LayoutWithTrailer ==
    [][Len(vextracted') > Len(vextracted) =>
         LET packet == vextracted'[Len(vextracted')]
             frame == frame_queue'[Len(frame_queue')]
         IN  /\ packet.len = 193862
             /\ frame.data.start = packet.start + 320
             /\ frame.data.len = 512 * 378
             /\ frame.data.start + frame.data.len = packet.start + packet.len - 6
             /\ Pixel(frame, 0, 0) = DecodePixel(ByteAt(packet, 320))
             /\ Pixel(frame, 377, 511) = DecodePixel(ByteAt(packet, packet.len - 7))]_vars

\* C27 witness: the first packet has just been decoded and its frame queued;
\* the image ends 6 bytes before the end of the packet.
C27_Witness ==
    /\ vpc = "extract" /\ Len(vextracted) = 1 /\ Len(frame_queue) = 1
    /\ LET packet == vextracted[1]
           frame == frame_queue[1]
       IN  /\ frame = DecodeFrame(packet)
           /\ frame.data.start + frame.data.len + 6 = packet.start + packet.len

\* pat occurs in buf at the 0-based offset o
OccursAt(pat, buf, o) ==
    /\ o + Len(pat) <= Len(buf)
    /\ \A i \in 1..Len(pat) : buf[o + i] = pat[i]

\* the offsets at which a header of HEADERS occurs in buf
HeaderOffsets(buf) ==
    {o \in 0..Len(buf) : \E h \in HEADERS : OccursAt(h, buf, o)}

\* The frame delimited by signatures: from the earliest header to the end of
\* the first footer after it, as 0-based [first, last]; NoData when a marker
\* is absent.
SignatureFrame(buf) ==
    IF HeaderOffsets(buf) = {} THEN NoData
    ELSE LET first == CHOOSE o \in HeaderOffsets(buf) :
                          \A p \in HeaderOffsets(buf) : o <= p
             footers == {o \in (first + Len(IMU_HEADER))..Len(buf) :
                            OccursAt(IMU_FOOTER, buf, o)}
         IN  IF footers = {} THEN NoData
             ELSE LET f == CHOOSE o \in footers : \A p \in footers : o <= p
                  IN  [first |-> first, last |-> f + Len(IMU_FOOTER) - 1]

\* C28: find_packet locates a frame by its signatures: it reports a frame
\* exactly when the buffer holds a header of HEADERS and IMU_FOOTER after it,
\* the frame is the inclusive range from the earliest header to the footer,
\* and it reports 'not found' when either marker is absent.
C28_SignatureFraming ==
    ppc = "found" =>
        IF SignatureFrame(pbuf) = NoData
          THEN pres = NoData
          ELSE pres # NoData /\ pres.consumed = SignatureFrame(pbuf).last + 1

\* C29: a recv that times out leaves the state, the socket, the buffer, the
\* latest-value slot and packets_received unchanged and invokes no callback,
\* and the worker goes back to the test of the stop flag, which it passes
\* towards another recv only while the flag is not set.
C29_TimeoutChangesNothing ==
    /\ [][RecvTimeout =>
            /\ UNCHANGED <<_state, _socket, sock, buffer, _latest_data,
                           packets_received>>
            /\ UNCHANGED <<reported, notified, lastDelivered>>
            /\ pc'[W] = "while"]_vars
    /\ [][(pc[W] = "while" /\ pc'[W] # "while") =>
            IF _running THEN pc'[W] = "if_socket" ELSE ctx'[W] = "cleanup"]_vars

\* C29 witness: a connected worker that has received nothing is back at the
\* test of the stop flag, which only a timed-out recv brings about.
C29_Witness ==
    /\ pc[W] = "while" /\ _state = CONNECTED /\ sock = "connected"
    /\ recvd = 0 /\ ~StopCalled /\ peer = <<"accept">>

\* C30: after a failed connect attempt the reader holds no socket: the state
\* is ERROR only while the socket reference is None, and the worker waits in
\* recv only on a socket whose connect succeeded.
C30_RecvOnlyOnConnectedSocket ==
    /\ _state = ERROR => _socket = None
    /\ pc[W] = "recv_wait" => sock = "connected"

\* C31: whenever _running is True a worker thread of the reader is alive.
C31_RunningMeansWorkerAlive ==
    _running => WorkerAlive

\* C32: with auto_reconnect = False, once an established connection has
\* been lost the worker starts no connect attempt.
C32_NoReconnectAfterLoss ==
    [][(~auto_reconnect /\ lost) =>
          ~(pc[W] = "if_socket" /\ ctx'[W] = "connecting")]_vars

\* C32, amended: with auto_reconnect = False the worker never retries a
\* failed connect: once a connect attempt has failed (ERROR has been
\* reported) it starts no connect attempt; after the loss of an established
\* connection it does connect again.
C32_NoRetryAfterFailedConnect ==
    [][(~auto_reconnect /\ \E i \in 1..Len(reported) : reported[i] = ERROR) =>
          ~(pc[W] = "if_socket" /\ ctx'[W] = "connecting")]_vars

\* C32 witness: with auto_reconnect = False the peer accepted a connection
\* and closed it, the worker's second connect attempt failed and the worker
\* ended.
C32_Witness ==
    /\ ~auto_reconnect /\ ~StopCalled
    /\ peer = <<"accept", "close", "fail">>
    /\ pc[W] = "done"
    /\ \E i \in 1..Len(reported) : reported[i] = ERROR

\* C33: the scan keeps its alignment: every parse pass removes a multiple of
\* 4 bytes from the front of the buffer (offset + 24 after a decode, the cut
\* to the last 1000 bytes on overflow), so the bytes removed within one
\* connection always add up to a multiple of 4.
C33_RemovalsKeepAlignment ==
    [][(pc[W] = "parse" /\ pc'[W] # "parse") =>
          (Len(buffer) - Len(buffer')) % 4 = 0]_vars

\* C34: the frame the display loop shows is never one received earlier than
\* a frame it has already shown: each newly displayed frame comes from a
\* later position of the stream than the one displayed before.
C34_DisplayNeverGoesBack ==
    [][(last_frame # NoData /\ last_frame' # last_frame) =>
          last_frame'.data.start > last_frame.data.start]_vars

\* C35: once the peer has closed the video connection (recv has returned no
\* bytes) the receive thread eventually stops reading.
C35_StopsReadingAfterPeerClose ==
    (vsock = "eof") ~> (vpc = "ended")

\* C36: in the application at most one ImuReader worker is alive at any
\* time, and a reader whose worker is alive is the one self.imu_reader
\* refers to.
C36_OneReaderAlive ==
    \A r \in DOMAIN readers : readers[r].alive => imu_reader = r

\* C37: the worker's buffer is empty whenever a new connection is
\* established, so bytes received before a connection loss are never
\* combined with bytes received over the next connection.
C37_BufferEmptyOnConnect ==
    [][(pc[W] = "connect_wait" /\ sock # "connected" /\ sock' = "connected") =>
          buffer = <<>>]_vars

\* C38: the latest-value slot is updated before the callback runs: when the
\* worker invokes on_data(x) the slot holds x and keeps holding it for as
\* long as the callback runs, and a get_latest() called by the callback
\* returns x, never an older sample.
C38_SlotUpdatedBeforeCallback ==
    [][/\ (pc[W] = "on_data_call" /\ pc'[W] = "on_data") =>
              imu_data' # NoData /\ _latest_data' = imu_data'
       /\ pc[W] \in {"on_data", "get_acquire", "get_locked"} =>
              _latest_data = imu_data
       /\ GetReturns(W) => got' = imu_data]_vars

\* C38 witness: inside the callback of the second sample, the worker's
\* get_latest() holds the lock and is about to return that sample, while the
\* previous get_latest() returned the first, older one.
C38_Witness ==
    /\ pc[W] = "get_locked" /\ packets_received = 2
    /\ imu_data # NoData /\ _latest_data = imu_data
    /\ got # [unset |-> TRUE] /\ got # NoData /\ got # imu_data

\* C39: the inner parse loop terminates for every finite buffer: a pass that
\* accepts a frame removes at least 24 bytes from the front of the buffer and
\* counts one sample, a pass that accepts none leaves the loop for the next
\* read, and no step other than a read lets 24 * (samples counted) plus the
\* buffer length grow, so the samples delivered from n received bytes are at
\* most n / 24.
C39_ParseLoopTerminates ==
    [][/\ (pc[W] = "parse" /\ pc'[W] = "store") =>
              /\ Len(buffer') <= Len(buffer) - 24
              /\ IsSuffix(buffer', buffer)
              /\ packets_received' = packets_received + 1
       /\ (pc[W] = "parse" /\ pc'[W] \notin {"parse", "store"}) =>
              /\ pc'[W] = "while"
              /\ packets_received' = packets_received
       /\ pc[W] # "recv_wait" =>
              24 * packets_received' + Len(buffer') <=
                  24 * packets_received + Len(buffer)]_vars

\* C39 witness: the third pass of the parse loop over the bytes of one read
\* has accepted a third frame, and the buffer is shorter than 24 bytes.
C39_Witness ==
    /\ pc[W] = "store" /\ recvd = 1 /\ packets_received = 3
    /\ Len(buffer) < 24

=============================================================================
